---- MODULE Spec2Model ----
(***************************************************************************)
(* Scope authorization engine of the attendance manager                    *)
(* (controle/permissions.py) together with the operations that write the   *)
(* grant tables (controle/views.py, controle/admin.py).                    *)
(*                                                                         *)
(* The state is the content of the grant tables: the unified table         *)
(* UserScope, the per-level tables Acesso* and the table FuncaoPermissao.  *)
(* The organisational hierarchy and the employees are fixed rows; a user   *)
(* is the object handed to a check: its id, the three flags of the auth    *)
(* user and the employee linked to it (Funcionario.user).                  *)
(*                                                                         *)
(* Schema.  permissions.py and views.py read Setor.orgao, Setor.secretaria,*)
(* Setor.prefeitura, Orgao.secretaria, UserScope.orgao and AcessoOrgao;    *)
(* models.py declares Setor.departamento, Setor.secretaria, Escola,        *)
(* Departamento and AcessoEscola.  The model carries every column either   *)
(* file reads, so the three capability flags of permissions.py are true.   *)
(***************************************************************************)
EXTENDS Integers, FiniteSets, Sequences, TLC

VARIABLES scopes, acessos, permissoes_funcao,
          funcionarios, folhas, pedido, chamada, avaliacao

vars == <<scopes, acessos, permissoes_funcao, funcionarios, folhas, pedido, chamada, avaliacao>>

\* what the operations on the grant tables leave alone: the employee and
\* timesheet rows, the request in progress, the call of the chain resolver
\* and the evaluation in progress
demais == <<funcionarios, folhas, pedido, chamada, avaliacao>>

None == "None"

LEITURA == "LEITURA"

GERENCIA == "GERENCIA"

\* Total number of rows held by the grant tables together.
MaxRows == 2

(***************************************************************************)
(* Hierarchy rows.                                                         *)
(***************************************************************************)
Prefeitura == {"P1", "P2"}

Secretaria == {"D1", "D2"}

Secretaria_prefeitura == [s \in Secretaria |-> "P1"]

Orgao == {"O1"}

Orgao_secretaria == [o \in Orgao |-> "D1"]

Escola == {"E1"}

Escola_secretaria == [e \in Escola |-> "D2"]

Departamento == {"DEP1", "DEP2"}

\* exactly one parent per Departamento (departamento_exact_one_parent)
Departamento_prefeitura == [d \in Departamento |-> IF d = "DEP2" THEN "P1" ELSE None]

Departamento_secretaria == [d \in Departamento |-> IF d = "DEP1" THEN "D2" ELSE None]

Departamento_escola == [d \in Departamento |-> None]

\* S1: department D1 directly; S2: agency O1 (of D1); S3: department D2
\* directly; S4: legacy departamento DEP2 (of municipality P1);
\* S5: municipality P2 directly.
Setor == {"S1", "S2", "S3", "S4", "S5"}

Setor_secretaria == [s \in Setor |-> CASE s = "S1" -> "D1" [] s = "S3" -> "D2" [] OTHER -> None]

Setor_orgao == [s \in Setor |-> IF s = "S2" THEN "O1" ELSE None]

Setor_prefeitura == [s \in Setor |-> IF s = "S5" THEN "P2" ELSE None]

Setor_departamento == [s \in Setor |-> IF s = "S4" THEN "DEP2" ELSE None]

Funcionario == {"F1", "F2", "F3", "F4"}

Funcionario_setor == [f \in Funcionario |-> CASE f = "F1" -> "S1" [] f = "F2" -> "S2" [] f = "F3" -> "S3" [] OTHER -> "S4"]

Funcionario_funcao == [f \in Funcionario |-> CASE f = "F2" -> "Diretor " [] OTHER -> "Coordenador"]

FolhaFrequencia == {"FO1", "FO3"}

FolhaFrequencia_funcionario == [fo \in FolhaFrequencia |-> IF fo = "FO1" THEN "F1" ELSE "F3"]

HorarioTrabalho == {"H2", "H4"}

HorarioTrabalho_funcionario == [h \in HorarioTrabalho |-> IF h = "H2" THEN "F2" ELSE "F4"]

\* Setor.secretaria_oficial: the departamento's secretaria, else the legacy one.
secretaria_oficial(setor) ==
    IF Setor_departamento[setor] # None /\ Departamento_secretaria[Setor_departamento[setor]] # None
    THEN Departamento_secretaria[Setor_departamento[setor]]
    ELSE Setor_secretaria[setor]

(***************************************************************************)
(* Users: the object a check receives.                                     *)
(***************************************************************************)
UserIds == {"u1", "u2"}

\* the users the grant operations of this model write rows for
GrantUserIds == {"u1"}

Users == [id : UserIds, is_authenticated : BOOLEAN, is_superuser : BOOLEAN,
          is_staff : BOOLEAN, funcionario : Funcionario \cup {None}]

Nivel == {LEITURA, GERENCIA}

(***************************************************************************)
(* Grant rows.                                                             *)
(***************************************************************************)
\* UserScope: one row has exactly one target column populated (tipo, alvo).
UserScopeTargets ==
    ({"prefeitura"} \X Prefeitura) \cup ({"secretaria"} \X Secretaria)
    \cup ({"orgao"} \X Orgao) \cup ({"setor"} \X Setor)
    \cup ({"escola"} \X Escola) \cup ({"departamento"} \X Departamento)

AcessoTargets ==
    ({"AcessoPrefeitura"} \X Prefeitura) \cup ({"AcessoSecretaria"} \X Secretaria)
    \cup ({"AcessoOrgao"} \X Orgao) \cup ({"AcessoSetor"} \X Setor)
    \cup ({"AcessoEscola"} \X Escola)

UserScopeRow(user, tipo, alvo, nivel) == [user |-> user, tipo |-> tipo, alvo |-> alvo, nivel |-> nivel]

AcessoRow(tabela, user, alvo, nivel) == [tabela |-> tabela, user |-> user, alvo |-> alvo, nivel |-> nivel]

FuncaoPermissaoRow(user, nome, nivel, sec, setor) ==
    [user |-> user, nome_funcao |-> nome, nivel |-> nivel, secretaria |-> sec, setor |-> setor]

NumRows == Cardinality(scopes) + Cardinality(acessos) + Cardinality(permissoes_funcao)

\* no request in progress, no call made, no evaluation in progress
SemPedido == [pc |-> "parado"]

SemChamada == [pc |-> "parado"]

SemAvaliacao == [pc |-> "parado"]

\* the grant tables are empty after the migrations
InitConcessoes ==
    /\ scopes = {}
    /\ acessos = {}
    /\ permissoes_funcao = {}

\* the employee and timesheet rows of the fixture are stored
InitDados ==
    /\ funcionarios = Funcionario
    /\ folhas = FolhaFrequencia

Init ==
    /\ InitConcessoes
    /\ InitDados
    /\ pedido = SemPedido
    /\ chamada = SemChamada
    /\ avaliacao = SemAvaliacao

(***************************************************************************)
(* permissions.py: basic helpers.                                          *)
(***************************************************************************)
HAS_ACESSO_ORGAO == TRUE

HAS_ESCOLA_DEPARTAMENTO == TRUE

HAS_FUNCAO_PERMISSAO == TRUE

\* mutation: every user object counts as authenticated
_is_auth_qualquer(user) == TRUE

_is_auth(user) == user.is_authenticated

\* mutation: the staff flag does not count
_user_is_admin_so_superuser(user) == _is_auth(user) /\ user.is_superuser

_user_is_admin(user) == _is_auth(user) /\ (user.is_superuser \/ user.is_staff)

\* str.strip and str.lower on the strings the model uses
_strip(s) == IF s = "Diretor " THEN "Diretor" ELSE s

_lower(s) ==
    CASE s \in {"Coordenador", "COORDENADOR"} -> "coordenador"
      [] s \in {"Diretor", "DIRETOR"} -> "diretor"
      [] s = "Diretor " -> "diretor "
      [] s = "LEITURA" -> "leitura"
      [] s = "GERENCIA" -> "gerencia"
      [] OTHER -> s

\* str.upper on the feature names the model uses
_upper(s) == IF s = "ver_folhas" THEN "VER_FOLHAS" ELSE s

_norm(s) == _lower(_strip(IF s = None THEN "" ELSE s))

_nivel_to_int(n) == IF _norm(n) \in {"gerencia", _norm(GERENCIA)} THEN 1 ELSE 0

\* user.scopes: the UserScope rows of the user (related_name='scopes')
user_scopes(user) == {s \in scopes : s.user = user.id}

\* <Acesso table>.objects.filter(user=user)
acessos_de(tabela, user) == {x \in acessos : x.tabela = tabela /\ x.user = user.id}

(***************************************************************************)
(* Hierarchy chain of a Setor: (orgao, secretaria, prefeitura).            *)
(***************************************************************************)
\* the columns of a Setor row that the chain resolver reads
Setor_row(setor) ==
    [orgao |-> Setor_orgao[setor], secretaria |-> Setor_secretaria[setor],
     prefeitura |-> Setor_prefeitura[setor], departamento |-> Setor_departamento[setor]]

\* _resolve_chain_from_setor on the columns of the Setor object it is given
_resolve_chain_from_setor_row(row) ==
    LET orgao == row.orgao
        sec1 == row.secretaria
        sec2 == IF sec1 = None /\ orgao # None THEN Orgao_secretaria[orgao] ELSE sec1
        pref1 == row.prefeitura
        pref2 == IF pref1 = None /\ sec2 # None THEN Secretaria_prefeitura[sec2] ELSE pref1
        dep == row.departamento
        legado == (orgao = None \/ sec2 = None \/ pref2 = None)
                  /\ HAS_ESCOLA_DEPARTAMENTO /\ dep # None
        sec3 == IF legado /\ sec2 = None THEN Departamento_secretaria[dep] ELSE sec2
        pref3 == IF legado /\ pref2 = None THEN Departamento_prefeitura[dep] ELSE pref2
    IN  [orgao |-> orgao, secretaria |-> sec3, prefeitura |-> pref3]

\* the same on a stored sector
_resolve_chain_from_setor(setor) == _resolve_chain_from_setor_row(Setor_row(setor))

\* mutation: no id of a resolved chain is taken
chain_ids_nenhum(chain, nivel_hier) == {}

\* the ids of a chain that are set, per level
chain_ids(chain, nivel_hier) == IF chain[nivel_hier] = None THEN {} ELSE {chain[nivel_hier]}

(***************************************************************************)
(* Consolidated scope of a user.                                           *)
(***************************************************************************)
user_scope(user) ==
    LET vazio == [all |-> FALSE, prefeituras |-> {}, secretarias |-> {}, orgaos |-> {},
                  setores |-> {}, escolas |-> {}, departamentos |-> {}]
        us(tipo) == {s.alvo : s \in {r \in user_scopes(user) : r.tipo = tipo}}
        ac(tabela) == {x.alvo : x \in acessos_de(tabela, user)}
        acOrgao == IF HAS_ACESSO_ORGAO THEN ac("AcessoOrgao") ELSE {}
        acEscola == IF HAS_ESCOLA_DEPARTAMENTO THEN ac("AcessoEscola") ELSE {}
        \* secretarias reached by a legacy row, whose prefeitura is added too
        secOrgao == {Orgao_secretaria[o] : o \in acOrgao}
        secEscola == {Escola_secretaria[e] : e \in acEscola} \ {None}
        \* chains of the AcessoSetor rows and of the user's own employee
        proprio == IF user.funcionario # None THEN {Funcionario_setor[user.funcionario]} ELSE {}
        cadeias == {_resolve_chain_from_setor(s) : s \in ac("AcessoSetor") \cup proprio}
    IN  IF ~_is_auth(user) THEN vazio
        ELSE IF _user_is_admin(user) THEN [vazio EXCEPT !.all = TRUE]
        ELSE [all |-> FALSE,
              prefeituras |-> us("prefeitura") \cup ac("AcessoPrefeitura")
                  \cup {Secretaria_prefeitura[s] : s \in ac("AcessoSecretaria") \cup secOrgao \cup secEscola}
                  \cup UNION {chain_ids(c, "prefeitura") : c \in cadeias},
              secretarias |-> us("secretaria") \cup ac("AcessoSecretaria") \cup secOrgao \cup secEscola
                  \cup UNION {chain_ids(c, "secretaria") : c \in cadeias},
              orgaos |-> us("orgao") \cup acOrgao \cup UNION {chain_ids(c, "orgao") : c \in cadeias},
              setores |-> us("setor") \cup ac("AcessoSetor") \cup proprio,
              escolas |-> (IF HAS_ESCOLA_DEPARTAMENTO THEN us("escola") ELSE {}) \cup acEscola,
              departamentos |-> IF HAS_ESCOLA_DEPARTAMENTO THEN us("departamento") ELSE {}]

(***************************************************************************)
(* Filters by scope.  A queryset is the set of its rows (.distinct()).     *)
(* The local s = user_scope(user) is computed once per call: it is bound   *)
(* as the only element of a singleton, and UNION unwraps the result.       *)
(***************************************************************************)
\* mutation: only the parent columns of the Setor row itself are matched
_q_setor_scope_so_colunas_diretas(s, setor) ==
    \/ setor \in s.setores
    \/ Setor_orgao[setor] \in s.orgaos
    \/ Setor_secretaria[setor] \in s.secretarias
    \/ Setor_prefeitura[setor] \in s.prefeituras

\* mutation: the path setor -> orgao -> secretaria is missing from the Q
_q_setor_scope_sem_orgao(s, setor) ==
    LET org == Setor_orgao[setor]
        sec == Setor_secretaria[setor]
        dep == Setor_departamento[setor]
    IN  \/ setor \in s.setores
        \/ org \in s.orgaos
        \/ sec \in s.secretarias
        \/ Setor_prefeitura[setor] \in s.prefeituras
        \/ (sec # None /\ Secretaria_prefeitura[sec] \in s.prefeituras)
        \/ (org # None /\ Secretaria_prefeitura[Orgao_secretaria[org]] \in s.prefeituras)
        \/ (HAS_ESCOLA_DEPARTAMENTO /\ dep # None
            /\ (\/ dep \in s.departamentos
                \/ Departamento_secretaria[dep] \in s.secretarias
                \/ Departamento_prefeitura[dep] \in s.prefeituras))

\* the Q of _q_setor_scope evaluated on one Setor row; a NULL column matches no IN
_q_setor_scope(s, setor) ==
    LET org == Setor_orgao[setor]
        sec == Setor_secretaria[setor]
        dep == Setor_departamento[setor]
    IN  \/ setor \in s.setores
        \/ org \in s.orgaos
        \/ sec \in s.secretarias
        \/ (org # None /\ Orgao_secretaria[org] \in s.secretarias)
        \/ Setor_prefeitura[setor] \in s.prefeituras
        \/ (sec # None /\ Secretaria_prefeitura[sec] \in s.prefeituras)
        \/ (org # None /\ Secretaria_prefeitura[Orgao_secretaria[org]] \in s.prefeituras)
        \/ (HAS_ESCOLA_DEPARTAMENTO /\ dep # None
            /\ (\/ dep \in s.departamentos
                \/ Departamento_secretaria[dep] \in s.secretarias
                \/ Departamento_prefeitura[dep] \in s.prefeituras))

filter_setores_by_scope(qs, user) ==
    UNION {IF s.all THEN qs ELSE {setor \in qs : _q_setor_scope(s, setor)}
           : s \in {user_scope(user)}}

\* the same disjunction written over setor__... from a Funcionario row
filter_funcionarios_by_scope(qs, user) ==
    UNION {LET cond(f) ==
               LET setor == Funcionario_setor[f]
                   org == Setor_orgao[setor]
                   sec == Setor_secretaria[setor]
                   dep == Setor_departamento[setor]
               IN  \/ setor \in s.setores
                   \/ org \in s.orgaos
                   \/ sec \in s.secretarias
                   \/ (org # None /\ Orgao_secretaria[org] \in s.secretarias)
                   \/ Setor_prefeitura[setor] \in s.prefeituras
                   \/ (sec # None /\ Secretaria_prefeitura[sec] \in s.prefeituras)
                   \/ (org # None /\ Secretaria_prefeitura[Orgao_secretaria[org]] \in s.prefeituras)
                   \/ (HAS_ESCOLA_DEPARTAMENTO /\ dep # None
                       /\ (\/ dep \in s.departamentos
                           \/ Departamento_secretaria[dep] \in s.secretarias
                           \/ Departamento_prefeitura[dep] \in s.prefeituras))
           IN  IF s.all THEN qs ELSE {f \in qs : cond(f)}
           : s \in {user_scope(user)}}

\* mutation: the timesheet filter without the sector's direct department column
filter_folhas_by_scope_sem_secretaria_direta(qs, user) ==
    UNION {LET cond(fo) ==
               LET setor == Funcionario_setor[FolhaFrequencia_funcionario[fo]]
                   org == Setor_orgao[setor]
                   sec == Setor_secretaria[setor]
                   dep == Setor_departamento[setor]
               IN  \/ setor \in s.setores
                   \/ org \in s.orgaos
                   \/ (org # None /\ Orgao_secretaria[org] \in s.secretarias)
                   \/ Setor_prefeitura[setor] \in s.prefeituras
                   \/ (sec # None /\ Secretaria_prefeitura[sec] \in s.prefeituras)
                   \/ (org # None /\ Secretaria_prefeitura[Orgao_secretaria[org]] \in s.prefeituras)
                   \/ (HAS_ESCOLA_DEPARTAMENTO /\ dep # None
                       /\ (\/ dep \in s.departamentos
                           \/ Departamento_secretaria[dep] \in s.secretarias
                           \/ Departamento_prefeitura[dep] \in s.prefeituras))
           IN  IF s.all THEN qs ELSE {fo \in qs : cond(fo)}
           : s \in {user_scope(user)}}

filter_folhas_by_scope(qs, user) ==
    UNION {LET cond(fo) ==
               LET setor == Funcionario_setor[FolhaFrequencia_funcionario[fo]]
                   org == Setor_orgao[setor]
                   sec == Setor_secretaria[setor]
                   dep == Setor_departamento[setor]
               IN  \/ setor \in s.setores
                   \/ org \in s.orgaos
                   \/ sec \in s.secretarias
                   \/ (org # None /\ Orgao_secretaria[org] \in s.secretarias)
                   \/ Setor_prefeitura[setor] \in s.prefeituras
                   \/ (sec # None /\ Secretaria_prefeitura[sec] \in s.prefeituras)
                   \/ (org # None /\ Secretaria_prefeitura[Orgao_secretaria[org]] \in s.prefeituras)
                   \/ (HAS_ESCOLA_DEPARTAMENTO /\ dep # None
                       /\ (\/ dep \in s.departamentos
                           \/ Departamento_secretaria[dep] \in s.secretarias
                           \/ Departamento_prefeitura[dep] \in s.prefeituras))
           IN  IF s.all THEN qs ELSE {fo \in qs : cond(fo)}
           : s \in {user_scope(user)}}

filter_horarios_by_scope(qs, user) ==
    UNION {LET cond(h) ==
               LET setor == Funcionario_setor[HorarioTrabalho_funcionario[h]]
                   org == Setor_orgao[setor]
                   sec == Setor_secretaria[setor]
                   dep == Setor_departamento[setor]
               IN  \/ setor \in s.setores
                   \/ org \in s.orgaos
                   \/ sec \in s.secretarias
                   \/ (org # None /\ Orgao_secretaria[org] \in s.secretarias)
                   \/ Setor_prefeitura[setor] \in s.prefeituras
                   \/ (sec # None /\ Secretaria_prefeitura[sec] \in s.prefeituras)
                   \/ (org # None /\ Secretaria_prefeitura[Orgao_secretaria[org]] \in s.prefeituras)
                   \/ (HAS_ESCOLA_DEPARTAMENTO /\ dep # None
                       /\ (\/ dep \in s.departamentos
                           \/ Departamento_secretaria[dep] \in s.secretarias
                           \/ Departamento_prefeitura[dep] \in s.prefeituras))
           IN  IF s.all THEN qs ELSE {h \in qs : cond(h)}
           : s \in {user_scope(user)}}

assert_can_access_funcionario(user, funcionario) ==
    \/ _user_is_admin(user)
    \/ filter_funcionarios_by_scope({funcionario}, user) # {}

(***************************************************************************)
(* Permission by the job title (funcao) of the target employee.            *)
(***************************************************************************)
\* the two accented spellings of the tuple are left out: no title of the
\* model normalises to them
DEFAULT_FUNCOES_GERENCIA ==
    {"diretor", "diretor(a)", "coordenador", "coordenador(a)", "secretario", "secretario(a)",
     "secretaria", "gestor", "gestor(a)", "admin", "administrador"}

has_funcao_permission(user, funcionario, required_nivel) ==
    LET req == _nivel_to_int(required_nivel)
        funcao_alvo == _norm(Funcionario_funcao[funcionario])
        setor == Funcionario_setor[funcionario]
        sec1 == secretaria_oficial(setor)
        sec == IF sec1 = None /\ Setor_orgao[setor] # None
               THEN Orgao_secretaria[Setor_orgao[setor]] ELSE sec1
        \* filter(user=user, nome_funcao__iexact=funcao_alvo).filter(Q | Q | Q);
        \* Q(secretaria=sec) with sec None is the lookup secretaria IS NULL
        qs == {p \in permissoes_funcao :
                 /\ p.user = user.id
                 /\ _lower(p.nome_funcao) = _lower(funcao_alvo)
                 /\ \/ (p.secretaria = None /\ p.setor = None)
                    \/ p.secretaria = sec
                    \/ p.setor = setor}
        minha_funcao == IF user.funcionario = None THEN _norm("")
                        ELSE _norm(Funcionario_funcao[user.funcionario])
    IN  IF ~_is_auth(user) THEN FALSE
        ELSE IF _user_is_admin(user) THEN TRUE
        ELSE IF ~assert_can_access_funcionario(user, funcionario) THEN FALSE
        ELSE IF HAS_FUNCAO_PERMISSAO /\ funcao_alvo # ""
             THEN \E p \in qs : _nivel_to_int(p.nivel) >= req
        ELSE IF req >= 1 THEN minha_funcao \in DEFAULT_FUNCOES_GERENCIA
        ELSE TRUE

(***************************************************************************)
(* Level checks per target.                                                *)
(***************************************************************************)
_secretaria_do_setor(setor) ==
    IF setor = None THEN None
    ELSE IF secretaria_oficial(setor) # None THEN secretaria_oficial(setor)
    ELSE IF Setor_secretaria[setor] # None THEN Setor_secretaria[setor]
    ELSE IF Setor_orgao[setor] # None THEN Orgao_secretaria[Setor_orgao[setor]]
    ELSE None

\* mutation: only rows whose level is LEITURA count for reading
_has_leitura_em_secretaria_nivel_exato(user, secretaria) ==
    IF ~_is_auth(user) \/ secretaria = None THEN FALSE
    ELSE IF _user_is_admin(user) THEN TRUE
    ELSE \/ \E s \in user_scopes(user) :
               /\ s.nivel = LEITURA
               /\ \/ (s.tipo = "secretaria" /\ s.alvo = secretaria)
                  \/ (s.tipo = "prefeitura" /\ s.alvo = Secretaria_prefeitura[secretaria])
         \/ \E x \in acessos_de("AcessoSecretaria", user) : x.alvo = secretaria /\ x.nivel = LEITURA

_has_leitura_em_secretaria(user, secretaria) ==
    IF ~_is_auth(user) \/ secretaria = None THEN FALSE
    ELSE IF _user_is_admin(user) THEN TRUE
    ELSE \/ \E s \in user_scopes(user) :
               \/ (s.tipo = "secretaria" /\ s.alvo = secretaria)
               \/ (s.tipo = "prefeitura" /\ s.alvo = Secretaria_prefeitura[secretaria])
         \/ \E x \in acessos_de("AcessoSecretaria", user) : x.alvo = secretaria

\* mutation: the lowest level among the user's rows on the department decides
_has_gerencia_em_secretaria_menor_nivel(user, secretaria) ==
    IF ~_is_auth(user) \/ secretaria = None THEN FALSE
    ELSE IF _user_is_admin(user) THEN TRUE
    ELSE /\ \/ \E s \in user_scopes(user) :
                  s.tipo = "secretaria" /\ s.alvo = secretaria /\ s.nivel = GERENCIA
            \/ \E s \in user_scopes(user) :
                  s.tipo = "prefeitura" /\ s.alvo = Secretaria_prefeitura[secretaria] /\ s.nivel = GERENCIA
            \/ \E x \in acessos_de("AcessoSecretaria", user) : x.alvo = secretaria /\ x.nivel = GERENCIA
         /\ ~\E s \in user_scopes(user) :
                  s.tipo = "secretaria" /\ s.alvo = secretaria /\ s.nivel = LEITURA
         /\ ~\E x \in acessos_de("AcessoSecretaria", user) : x.alvo = secretaria /\ x.nivel = LEITURA

_has_gerencia_em_secretaria(user, secretaria) ==
    IF ~_is_auth(user) \/ secretaria = None THEN FALSE
    ELSE IF _user_is_admin(user) THEN TRUE
    ELSE \/ \E s \in user_scopes(user) :
               s.tipo = "secretaria" /\ s.alvo = secretaria /\ s.nivel = GERENCIA
         \/ \E s \in user_scopes(user) :
               s.tipo = "prefeitura" /\ s.alvo = Secretaria_prefeitura[secretaria] /\ s.nivel = GERENCIA
         \/ \E x \in acessos_de("AcessoSecretaria", user) : x.alvo = secretaria /\ x.nivel = GERENCIA

_has_leitura_em_setor(user, setor) ==
    LET sec == _secretaria_do_setor(setor)
    IN  IF setor = None THEN FALSE
        ELSE IF _user_is_admin(user) THEN TRUE
        ELSE \/ \E s \in user_scopes(user) : s.tipo = "setor" /\ s.alvo = setor
             \/ (sec # None /\ \E s \in user_scopes(user) :
                    \/ (s.tipo = "secretaria" /\ s.alvo = sec)
                    \/ (s.tipo = "prefeitura" /\ s.alvo = Secretaria_prefeitura[sec]))
             \/ (sec # None /\ _has_leitura_em_secretaria(user, sec))

\* mutation: a sector of the user's scope counts as managed
_has_gerencia_em_setor_pelo_escopo(user, setor) ==
    IF setor = None THEN FALSE
    ELSE IF _user_is_admin(user) THEN TRUE
    ELSE \/ setor \in user_scope(user).setores
         \/ _has_gerencia_em_secretaria(user, _secretaria_do_setor(setor))

_has_gerencia_em_setor(user, setor) ==
    IF setor = None THEN FALSE
    ELSE IF _user_is_admin(user) THEN TRUE
    ELSE \/ \E s \in user_scopes(user) : s.tipo = "setor" /\ s.alvo = setor /\ s.nivel = GERENCIA
         \/ _has_gerencia_em_secretaria(user, _secretaria_do_setor(setor))

_has_leitura_em_funcionario(user, funcionario) ==
    _has_leitura_em_setor(user, IF funcionario = None THEN None ELSE Funcionario_setor[funcionario])

\* mutation: the job-title policy alone decides, the sector level is not asked
_has_gerencia_em_funcionario_so_funcao(user, funcionario) ==
    has_funcao_permission(user, funcionario, GERENCIA)

_has_gerencia_em_funcionario(user, funcionario) ==
    IF ~_has_gerencia_em_setor(user, Funcionario_setor[funcionario]) THEN FALSE
    ELSE has_funcao_permission(user, funcionario, GERENCIA)

(***************************************************************************)
(* Feature catalogue.                                                      *)
(***************************************************************************)
LeituraFeatures ==
    {"VER_PAINEL", "VER_FUNCIONARIOS", "VER_FERIADOS", "VER_FOLHAS", "VER_FOLHA", "CAPA_LIVRO",
     "VER_FICHA", "REL_PERSONALIZADO", "REL_PROFESSORES", "RELATORIOS"}

GerenciaFeatures ==
    {"CAD_FUNCIONARIO", "EDIT_FUNCIONARIO", "EXCLUIR_FUNCIONARIO", "CAD_HORARIO", "EDIT_HORARIO",
     "CAD_FERIADO", "EDIT_FERIADO", "EXCLUIR_FERIADO", "GERAR_FOLHA", "GERAR_FOLHAS_LOTE",
     "GERAR_FOLHAS_MULTI", "EXCLUIR_FOLHA", "IMPORTAR_FUNCIONARIOS", "IMPORTAR_HORARIOS"}

SuperuserOnlyFeatures == {"ACESSOS_CONCEDER", "ACESSOS_REVOGAR", "SCOPES_MANAGER", "SCOPES_DEBUG"}

\* mutation: every rule of the catalogue asks for GERENCIA
FEATURE_RULES_tudo_gerencia ==
    [f \in LeituraFeatures \cup GerenciaFeatures \cup SuperuserOnlyFeatures |->
        [nivel |-> GERENCIA, superuser_only |-> f \in SuperuserOnlyFeatures]]

\* mutation: the superuser_only flag is missing from the four management rules
FEATURE_RULES_sem_superuser_only ==
    [f \in LeituraFeatures \cup GerenciaFeatures \cup SuperuserOnlyFeatures |->
        [nivel |-> IF f \in LeituraFeatures THEN LEITURA ELSE GERENCIA, superuser_only |-> FALSE]]

FEATURE_RULES ==
    [f \in LeituraFeatures \cup GerenciaFeatures \cup SuperuserOnlyFeatures |->
        [nivel |-> IF f \in LeituraFeatures THEN LEITURA ELSE GERENCIA,
         superuser_only |-> f \in SuperuserOnlyFeatures]]

\* a target object: its model class and its primary key
Alvo(tipo, id) == [tipo |-> tipo, id |-> id]

\* alvo=None, the default of user_can_feature
SemAlvo == Alvo(None, None)

Alvos ==
    {Alvo("Funcionario", f) : f \in Funcionario} \cup {Alvo("Setor", s) : s \in Setor}
    \cup {Alvo("Secretaria", s) : s \in Secretaria} \cup {Alvo("Prefeitura", p) : p \in Prefeitura}
    \cup {Alvo("Orgao", o) : o \in Orgao} \cup {Alvo("Escola", e) : e \in Escola}
    \cup {Alvo("Departamento", d) : d \in Departamento} \cup {Alvo("Feriado", "X1")}

user_can_feature(user, feature, alvo) ==
    LET known == _upper(feature) \in DOMAIN FEATURE_RULES
        rule == FEATURE_RULES[_upper(feature)]
        nivel == rule.nivel
        \* the dispatch on a Secretaria; the legacy targets re-enter the function on
        \* their secretaria, where the checks above give the same result
        em_secretaria(sec) == IF nivel = GERENCIA THEN _has_gerencia_em_secretaria(user, sec)
                              ELSE _has_leitura_em_secretaria(user, sec)
        sc == user_scope(user)
    IN  IF ~_is_auth(user) THEN FALSE
        ELSE IF ~known THEN FALSE
        ELSE IF rule.superuser_only /\ ~user.is_superuser THEN FALSE
        ELSE IF alvo = SemAlvo THEN
            IF _user_is_admin(user) THEN TRUE
            ELSE IF nivel = GERENCIA THEN
                \/ \E s \in user_scopes(user) : s.nivel = GERENCIA
                \/ \E x \in acessos_de("AcessoSecretaria", user) : x.nivel = GERENCIA
                \/ \E x \in acessos_de("AcessoPrefeitura", user) : x.nivel = GERENCIA
                \/ (HAS_ACESSO_ORGAO /\ \E x \in acessos_de("AcessoOrgao", user) : x.nivel = GERENCIA)
            ELSE \E k \in {"prefeituras", "secretarias", "orgaos", "setores", "escolas", "departamentos"} :
                    sc[k] # {}
        ELSE IF alvo.tipo = "Funcionario" THEN
            IF nivel = GERENCIA THEN _has_gerencia_em_funcionario(user, alvo.id)
            ELSE _has_leitura_em_funcionario(user, alvo.id)
        ELSE IF alvo.tipo = "Setor" THEN
            IF nivel = GERENCIA THEN _has_gerencia_em_setor(user, alvo.id)
            ELSE _has_leitura_em_setor(user, alvo.id)
        ELSE IF alvo.tipo = "Secretaria" THEN em_secretaria(alvo.id)
        ELSE IF alvo.tipo = "Prefeitura" THEN
            IF _user_is_admin(user) THEN TRUE
            ELSE IF nivel = GERENCIA
                 THEN \E s \in user_scopes(user) :
                         s.tipo = "prefeitura" /\ s.alvo = alvo.id /\ s.nivel = GERENCIA
            ELSE \E s \in user_scopes(user) : s.tipo = "prefeitura" /\ s.alvo = alvo.id
        ELSE IF HAS_ESCOLA_DEPARTAMENTO /\ alvo.tipo = "Escola" THEN
            IF Escola_secretaria[alvo.id] # None THEN em_secretaria(Escola_secretaria[alvo.id])
            ELSE _user_is_admin(user)
        ELSE IF HAS_ESCOLA_DEPARTAMENTO /\ alvo.tipo = "Departamento" THEN
            IF Departamento_secretaria[alvo.id] # None
            THEN em_secretaria(Departamento_secretaria[alvo.id])
            ELSE IF Departamento_prefeitura[alvo.id] # None
            THEN (IF nivel = GERENCIA THEN _user_is_admin(user) ELSE TRUE)
            ELSE FALSE
        ELSE FALSE

(***************************************************************************)
(* Operations on the grant tables.                                         *)
(***************************************************************************)
\* request.user of a view (the id plays no part in the guards): a superuser,
\* a staff member, an ordinary user and the anonymous user
Requesters ==
    {u \in Users : /\ u.id = "u2" /\ u.funcionario = None
                   /\ (u.is_superuser => u.is_staff /\ u.is_authenticated)
                   /\ (u.is_staff => u.is_authenticated)}

\* mutation: the test lets a staff member through
_only_superuser_ou_staff(u) == u.is_authenticated /\ (u.is_superuser \/ u.is_staff)

\* @login_required + @user_passes_test(_only_superuser), the definition in force
_only_superuser(u) == u.is_authenticated /\ u.is_superuser

_is_superadmin(user) == user.is_authenticated /\ user.is_superuser

\* views.py imports Prefeitura, Secretaria, Orgao, Setor and UserScope from
\* .models and none of AcessoPrefeitura, AcessoSecretaria, AcessoOrgao,
\* AcessoSetor: the names acessos_conceder calls are unbound in the module.
VIEWS_IMPORTS_ACESSO_MODELS == FALSE

\* the tables after the step hold at most MaxRows rows
WithinBound == Cardinality(acessos') + Cardinality(scopes) + Cardinality(permissoes_funcao) <= MaxRows

\* Model.objects.update_or_create(user, alvo, defaults={"nivel": nivel})
update_or_create(tabela, user, alvo, nivel) ==
    {x \in acessos : ~(x.tabela = tabela /\ x.user = user /\ x.alvo = alvo)}
    \cup {AcessoRow(tabela, user, alvo, nivel)}

\* the POST fields of acessos_conceder: "" is a field left empty
ConcederAlvos ==
    {a \in [prefeitura : {"P1", ""}, secretaria : {"D1", ""}, orgao : {"O1", ""}, setor : {"S1", ""}] :
        Cardinality({k \in {"prefeitura", "secretaria", "orgao", "setor"} : a[k] # ""}) <= 2}

acessos_conceder(req, user_id, nivel_post, a) ==
    LET nivel == IF nivel_post = "gerencia" THEN GERENCIA ELSE nivel_post
        preenchidas == {k \in {"prefeitura", "secretaria", "orgao", "setor"} : a[k] # ""}
        alvo == CHOOSE k \in preenchidas : TRUE
        tabela == CASE alvo = "prefeitura" -> "AcessoPrefeitura"
                    [] alvo = "secretaria" -> "AcessoSecretaria"
                    [] alvo = "orgao" -> "AcessoOrgao"
                    [] OTHER -> "AcessoSetor"
    IN  /\ IF /\ _only_superuser(req)
              /\ user_id \in UserIds
              /\ nivel \in Nivel
              /\ Cardinality(preenchidas) = 1
              \* NameError on the unbound model name, caught by except Exception
              /\ VIEWS_IMPORTS_ACESSO_MODELS
           THEN acessos' = update_or_create(tabela, user_id, a[alvo], nivel) /\ WithinBound
           ELSE UNCHANGED acessos
        /\ UNCHANGED <<scopes, permissoes_funcao, demais>>

\* the rows the acessos_revogar page lists (GET without a text filter): the
\* UserScope rows
acessos_revogar_escopos == scopes

\* POST scope_id: get_object_or_404(UserScope, pk=scope_id).delete()
acessos_revogar(req, scope) ==
    /\ IF _only_superuser(req) /\ scope \in scopes
       THEN scopes' = scopes \ {scope}
       ELSE UNCHANGED scopes
    /\ UNCHANGED <<acessos, permissoes_funcao, demais>>

\* mutation: clean accepts any number of populated target columns
UserScope_clean_qualquer(alvos) == TRUE

\* UserScope.clean: exactly one target column populated
UserScope_clean(alvos) == Cardinality(alvos) = 1

\* UserScope.save: full_clean (choices, foreign keys, clean), then the insert
UserScope_save(user_id, nivel, alvos) ==
    IF /\ NumRows < MaxRows
       /\ user_id \in UserIds
       /\ nivel \in Nivel
       /\ alvos \subseteq UserScopeTargets
       /\ UserScope_clean(alvos)
    THEN scopes' = scopes \cup {UserScopeRow(user_id, a[1], a[2], nivel) : a \in alvos}
    ELSE UNCHANGED scopes

\* action=add: one (alvo_tipo, alvo_id) pair per request; nivel "" is the
\* field left out, which defaults to GERENCIA
scope_manager_add(req, user_id, nivel_post, alvo_tipo, alvo_id) ==
    LET nivel == IF nivel_post = "" THEN GERENCIA ELSE nivel_post
    IN  /\ IF /\ _is_superadmin(req)
              /\ user_id # "" /\ alvo_tipo # "" /\ alvo_id # ""
              /\ alvo_id # "abc"
              /\ alvo_tipo \in {"prefeitura", "secretaria", "orgao", "setor"}
           THEN UserScope_save(user_id, nivel, {<<alvo_tipo, alvo_id>>})
           ELSE UNCHANGED scopes
        /\ UNCHANGED <<acessos, permissoes_funcao, demais>>

scope_manager_delete(req, scope) ==
    /\ IF _is_superadmin(req) /\ scope \in scopes
       THEN scopes' = scopes \ {scope}
       ELSE UNCHANGED scopes
    /\ UNCHANGED <<acessos, permissoes_funcao, demais>>

\* UserScopeAdmin: the admin add form, any subset of the target columns filled
UserScopeAdmin_add(user_id, nivel, alvos) ==
    /\ UserScope_save(user_id, nivel, alvos)
    /\ UNCHANGED <<acessos, permissoes_funcao, demais>>

UserScopeAdmin_delete(scope) ==
    /\ scope \in scopes
    /\ scopes' = scopes \ {scope}
    /\ UNCHANGED <<acessos, permissoes_funcao, demais>>

\* escopo of ConcederAcessoForm / RevogarAcessoForm -> the table written
EscopoTabela ==
    [e \in {"prefeitura", "secretaria", "escola", "setor"} |->
        CASE e = "prefeitura" -> "AcessoPrefeitura" [] e = "secretaria" -> "AcessoSecretaria"
          [] e = "escola" -> "AcessoEscola" [] OTHER -> "AcessoSetor"]

\* mutation: the bulk grant inserts its row without looking for an existing one
conceder_acesso_bulk_so_cria(queryset, escopo, nivel, obj) ==
    /\ <<EscopoTabela[escopo], obj>> \in AcessoTargets
    /\ acessos' = acessos \cup {AcessoRow(EscopoTabela[escopo], u, obj, nivel) : u \in queryset}
    /\ WithinBound
    /\ UNCHANGED <<scopes, permissoes_funcao, demais>>

\* mutation: the bulk grant first clears the user's other legacy grants
conceder_acesso_bulk_substitui(queryset, escopo, nivel, obj) ==
    /\ <<EscopoTabela[escopo], obj>> \in AcessoTargets
    /\ acessos' = {x \in acessos : x.user \notin queryset}
                  \cup {AcessoRow(EscopoTabela[escopo], u, obj, nivel) : u \in queryset}
    /\ UNCHANGED <<scopes, permissoes_funcao, demais>>

\* UserAdmin.conceder_acesso_bulk with "apply": per selected user get_or_create,
\* and an existing row of another level has its level replaced
conceder_acesso_bulk(queryset, escopo, nivel, obj) ==
    /\ <<EscopoTabela[escopo], obj>> \in AcessoTargets
    /\ acessos' = {x \in acessos : ~(x.tabela = EscopoTabela[escopo] /\ x.user \in queryset /\ x.alvo = obj)}
                  \cup {AcessoRow(EscopoTabela[escopo], u, obj, nivel) : u \in queryset}
    /\ WithinBound
    /\ UNCHANGED <<scopes, permissoes_funcao, demais>>

revogar_acesso_bulk(queryset, escopo, obj) ==
    /\ <<EscopoTabela[escopo], obj>> \in AcessoTargets
    /\ acessos' = {x \in acessos : ~(x.tabela = EscopoTabela[escopo] /\ x.user \in queryset /\ x.alvo = obj)}
    /\ UNCHANGED <<scopes, permissoes_funcao, demais>>

\* _AcessoBaseAdmin actions on the selected rows of one registered table
action_set_nivel(queryset, nivel) ==
    /\ queryset # {}
    /\ \E e \in DOMAIN EscopoTabela : \A x \in queryset : x.tabela = EscopoTabela[e]
    /\ acessos' = (acessos \ queryset) \cup {[x EXCEPT !.nivel = nivel] : x \in queryset}
    /\ UNCHANGED <<scopes, permissoes_funcao, demais>>

action_set_leitura(queryset) == action_set_nivel(queryset, LEITURA)

action_set_gerencia(queryset) == action_set_nivel(queryset, GERENCIA)

\* the add and delete views of the registered Acesso* admins and user inlines;
\* unique_together (user, alvo) rejects a second row
AcessoAdmin_add(tabela, user_id, alvo, nivel) ==
    /\ tabela \in {EscopoTabela[e] : e \in DOMAIN EscopoTabela}
    /\ ~\E x \in acessos : x.tabela = tabela /\ x.user = user_id /\ x.alvo = alvo
    /\ acessos' = acessos \cup {AcessoRow(tabela, user_id, alvo, nivel)}
    /\ WithinBound
    /\ UNCHANGED <<scopes, permissoes_funcao, demais>>

AcessoAdmin_delete(x) ==
    /\ x \in acessos
    /\ x.tabela \in {EscopoTabela[e] : e \in DOMAIN EscopoTabela}
    /\ acessos' = acessos \ {x}
    /\ UNCHANGED <<scopes, permissoes_funcao, demais>>

\* AcessoOrgao, the agency-level grant table: create and delete of one row
AcessoOrgao_add(user_id, orgao, nivel) ==
    /\ ~\E x \in acessos : x.tabela = "AcessoOrgao" /\ x.user = user_id /\ x.alvo = orgao
    /\ acessos' = acessos \cup {AcessoRow("AcessoOrgao", user_id, orgao, nivel)}
    /\ WithinBound
    /\ UNCHANGED <<scopes, permissoes_funcao, demais>>

AcessoOrgao_delete(x) ==
    /\ x \in acessos
    /\ x.tabela = "AcessoOrgao"
    /\ acessos' = acessos \ {x}
    /\ UNCHANGED <<scopes, permissoes_funcao, demais>>

\* FuncaoPermissao.clean: secretaria OR setor, or both blank
FuncaoPermissao_clean(sec, setor) == ~(sec # None /\ setor # None)

FuncaoPermissaoAdmin_add(user_id, nome, nivel, sec, setor) ==
    /\ IF FuncaoPermissao_clean(sec, setor) /\ NumRows < MaxRows
       THEN permissoes_funcao' = permissoes_funcao \cup {FuncaoPermissaoRow(user_id, nome, nivel, sec, setor)}
       ELSE UNCHANGED permissoes_funcao
    /\ UNCHANGED <<scopes, acessos, demais>>

FuncaoPermissaoAdmin_delete(p) ==
    /\ p \in permissoes_funcao
    /\ permissoes_funcao' = permissoes_funcao \ {p}
    /\ UNCHANGED <<scopes, acessos, demais>>

(***************************************************************************)
(* Inputs of the operations and the next-state relation.                   *)
(***************************************************************************)
\* the targets the grant forms of this model are filled with
FormScopeTargets ==
    {<<"prefeitura", "P1">>, <<"secretaria", "D1">>, <<"orgao", "O1">>, <<"setor", "S1">>,
     <<"escola", "E1">>, <<"departamento", "DEP2">>}

FormAcessoTargets ==
    {<<"AcessoPrefeitura", "P1">>, <<"AcessoSecretaria", "D1">>, <<"AcessoOrgao", "O1">>,
     <<"AcessoSetor", "S1">>, <<"AcessoSetor", "S4">>, <<"AcessoEscola", "E1">>}

\* target column sets an admin form may carry: none, one or two columns
UserScopeFormAlvos ==
    {{}} \cup {{a} : a \in FormScopeTargets}
    \cup {{<<"secretaria", "D1">>, <<"setor", "S1">>}, {<<"prefeitura", "P1">>, <<"orgao", "O1">>}}

\* (alvo_tipo, alvo_id) fields posted to scope_manager: the existing targets,
\* a type the view does not know, a missing field, a non-numeric id and a
\* primary key with no row
ScopeManagerAlvos ==
    {a \in FormScopeTargets : a[1] \in {"prefeitura", "secretaria", "orgao", "setor"}}
    \cup {<<"escola", "E1">>, <<"", "P1">>, <<"setor", "">>, <<"setor", "abc">>, <<"prefeitura", "S1">>}

\* the POSTs to scope_manager add: every form from a superuser, one form from
\* each other requester
ScopeManagerPosts ==
    {p \in [req : Requesters, user_id : GrantUserIds \cup {""}, nivel : Nivel \cup {"", "X"},
            alvo : ScopeManagerAlvos] :
        \/ _is_superadmin(p.req) /\ (p.user_id = "" => p.alvo = <<"setor", "S1">> /\ p.nivel = LEITURA)
        \/ (p.user_id = "u1" /\ p.nivel = GERENCIA /\ p.alvo = <<"setor", "S1">>)}

\* the POSTs to acessos_conceder, built the same way
ConcederPosts ==
    {p \in [req : Requesters, user_id : GrantUserIds \cup {"", "u9"}, nivel : Nivel \cup {"gerencia", "X"},
            alvos : ConcederAlvos] :
        \/ /\ _only_superuser(p.req)
           /\ (p.user_id # "u1" \/ p.nivel \in {"gerencia", "X"}
                 => p.alvos = [prefeitura |-> "", secretaria |-> "D1", orgao |-> "", setor |-> ""])
        \/ /\ p.user_id = "u1" /\ p.nivel = GERENCIA
           /\ p.alvos = [prefeitura |-> "", secretaria |-> "D1", orgao |-> "", setor |-> ""]}

\* the FuncaoPermissao forms submitted: (nome_funcao, nivel, secretaria, setor);
\* the last one fills both scope columns
FuncaoForms ==
    {<<"COORDENADOR", LEITURA, None, None>>, <<"COORDENADOR", GERENCIA, None, None>>,
     <<"COORDENADOR", GERENCIA, "D1", None>>, <<"COORDENADOR", GERENCIA, None, "S3">>,
     <<"diretor", GERENCIA, None, None>>, <<"diretor", LEITURA, "D1", "S3">>}

\* the four tables with an admin and a bulk action
AcessoAdminTargets == {t \in FormAcessoTargets : t[1] # "AcessoOrgao"}

EscopoDe == [t \in {"AcessoPrefeitura", "AcessoSecretaria", "AcessoEscola", "AcessoSetor"} |->
                CHOOSE e \in DOMAIN EscopoTabela : EscopoTabela[e] = t]

Next ==
    \/ \E p \in ConcederPosts : acessos_conceder(p.req, p.user_id, p.nivel, p.alvos)
    \/ \E req \in Requesters, scope \in scopes : acessos_revogar(req, scope)
    \/ \E p \in ScopeManagerPosts : scope_manager_add(p.req, p.user_id, p.nivel, p.alvo[1], p.alvo[2])
    \/ \E req \in Requesters, scope \in scopes : scope_manager_delete(req, scope)
    \/ \E user_id \in GrantUserIds, nivel \in Nivel, alvos \in UserScopeFormAlvos :
         UserScopeAdmin_add(user_id, nivel, alvos)
    \/ \E scope \in scopes : UserScopeAdmin_delete(scope)
    \/ \E queryset \in (SUBSET GrantUserIds) \ {{}}, t \in AcessoAdminTargets, nivel \in Nivel :
         conceder_acesso_bulk(queryset, EscopoDe[t[1]], nivel, t[2])
    \/ \E queryset \in (SUBSET GrantUserIds) \ {{}}, t \in AcessoAdminTargets :
         revogar_acesso_bulk(queryset, EscopoDe[t[1]], t[2])
    \/ \E queryset \in SUBSET acessos : action_set_leitura(queryset)
    \/ \E queryset \in SUBSET acessos : action_set_gerencia(queryset)
    \/ \E t \in AcessoAdminTargets, user_id \in GrantUserIds, nivel \in Nivel :
         AcessoAdmin_add(t[1], user_id, t[2], nivel)
    \/ \E x \in acessos : AcessoAdmin_delete(x)
    \/ \E user_id \in GrantUserIds, orgao \in Orgao, nivel \in Nivel :
         AcessoOrgao_add(user_id, orgao, nivel)
    \/ \E x \in acessos : AcessoOrgao_delete(x)
    \/ \E user_id \in GrantUserIds, fp \in FuncaoForms :
         FuncaoPermissaoAdmin_add(user_id, fp[1], fp[2], fp[3], fp[4])
    \/ \E p \in permissoes_funcao : FuncaoPermissaoAdmin_delete(p)

Spec == Init /\ [][Next]_vars

(***************************************************************************)
(* Properties.  The users of a property are user objects with the id that  *)
(* the grant rows are written for, with every combination of flags and     *)
(* every linked employee.                                                  *)
(***************************************************************************)
Features == DOMAIN FEATURE_RULES

\* one feature for each distinct rule among the features F: user_can_feature
\* reads the feature through FEATURE_RULES[feature] and nothing else
UmaPorRegra(F) == {CHOOSE g \in F : FEATURE_RULES[g] = r : r \in {FEATURE_RULES[f] : f \in F}}

FeaturesUmaPorRegra == UmaPorRegra(Features)

LeituraUmaPorRegra == UmaPorRegra(LeituraFeatures)

GerenciaUmaPorRegra == UmaPorRegra(GerenciaFeatures)

RestritasUmaPorRegra == UmaPorRegra(GerenciaFeatures \cup SuperuserOnlyFeatures)

NaoRestritasUmaPorRegra == UmaPorRegra(Features \ SuperuserOnlyFeatures)

\* targets of the four hierarchy kinds the dispatch of user_can_feature names
AlvosHierarquia == {a \in Alvos : a.tipo \in {"Funcionario", "Setor", "Secretaria", "Prefeitura"}}

\* authenticated users with the superuser or the staff flag, without and with
\* a linked employee
Admins ==
    {u \in Users : /\ u.id = "u1" /\ u.funcionario \in {None, "F1"}
                    /\ u.is_authenticated /\ (u.is_superuser \/ u.is_staff)}

\* users without the superuser and the staff flag
NaoAdmins == {u \in Users : u.id = "u1" /\ ~u.is_superuser /\ ~u.is_staff}

\* the authenticated ones among them
NaoAdminsAut == {u \in NaoAdmins : u.is_authenticated}

\* the rows of the three tables that name the user
LinhasDe(u) ==
    {s \in scopes : s.user = u.id} \cup {x \in acessos : x.user = u.id}
    \cup {p \in permissoes_funcao : p.user = u.id}

FiltrosDevolvemTudo(u) ==
    /\ filter_setores_by_scope(Setor, u) = Setor
    /\ filter_funcionarios_by_scope(Funcionario, u) = Funcionario
    /\ filter_folhas_by_scope(FolhaFrequencia, u) = FolhaFrequencia
    /\ filter_horarios_by_scope(HorarioTrabalho, u) = HorarioTrabalho

FiltrosDevolvemVazio(u) ==
    /\ filter_setores_by_scope(Setor, u) = {}
    /\ filter_funcionarios_by_scope(Funcionario, u) = {}
    /\ filter_folhas_by_scope(FolhaFrequencia, u) = {}
    /\ filter_horarios_by_scope(HorarioTrabalho, u) = {}

\* C1 as stated: for an authenticated superuser or staff user the scope is
\* unrestricted, every filter returns its input and user_can_feature is true
\* for every feature of the catalogue and every target, None included.
C1_Original ==
    \A u \in Admins :
        /\ user_scope(u).all
        /\ FiltrosDevolvemTudo(u)
        /\ \A f \in Features, a \in AlvosHierarquia \cup {SemAlvo} : user_can_feature(u, f, a)

\* C1 (amended): for an authenticated superuser or staff user the scope is
\* unrestricted and every filter returns its input; user_can_feature is true
\* with no target and with an employee, sector, department or municipality
\* target for every feature that is not superuser-only, and for the
\* superuser-only features when the user is a superuser.
C1_AdminIrrestrito ==
    \A u \in Admins :
        /\ user_scope(u).all
        /\ FiltrosDevolvemTudo(u)
        /\ \A f \in NaoRestritasUmaPorRegra \cup SuperuserOnlyFeatures,
                a \in AlvosHierarquia \cup {SemAlvo} :
              (f \notin SuperuserOnlyFeatures \/ u.is_superuser) => user_can_feature(u, f, a)

\* a staff user whose only row is a READ scope on S1 manages D2 and is
\* refused SCOPES_MANAGER
C1_Witness ==
    LET staff == [id |-> "u1", is_authenticated |-> TRUE, is_superuser |-> FALSE,
                  is_staff |-> TRUE, funcionario |-> None]
    IN  /\ scopes = {UserScopeRow("u1", "setor", "S1", LEITURA)}
        /\ acessos = {} /\ permissoes_funcao = {}
        /\ user_scope(staff).all
        /\ user_can_feature(staff, "EXCLUIR_FOLHA", Alvo("Secretaria", "D2"))
        /\ ~user_can_feature(staff, "SCOPES_MANAGER", SemAlvo)

\* C2: a user without the superuser and staff flags, with no grant row in
\* any table and no linked employee, gets zero rows from every filter and
\* false from user_can_feature for every feature and every target other
\* than None: employee, sector, department, municipality, agency, legacy
\* school and legacy departamento.
C2_SemConcessaoTudoNegado ==
    \A u \in NaoAdmins :
        (LinhasDe(u) = {} /\ u.funcionario = None) =>
            /\ FiltrosDevolvemVazio(u)
            /\ \A f \in Features, a \in Alvos : ~user_can_feature(u, f, a)

\* the departments a sector hangs under, by any of its parent columns
SecretariasDoSetor(setor) ==
    ({Setor_secretaria[setor]}
     \cup (IF Setor_orgao[setor] # None THEN {Orgao_secretaria[Setor_orgao[setor]]} ELSE {})
     \cup (IF Setor_departamento[setor] # None
           THEN {Departamento_secretaria[Setor_departamento[setor]]} ELSE {})) \ {None}

\* the municipalities a sector hangs under
PrefeiturasDoSetor(setor) ==
    ({Setor_prefeitura[setor]} \cup {Secretaria_prefeitura[d] : d \in SecretariasDoSetor(setor)}
     \cup (IF Setor_departamento[setor] # None
           THEN {Departamento_prefeitura[Setor_departamento[setor]]} ELSE {})) \ {None}

\* the user holds a GERENCIA row, in the unified table or a per-level table,
\* on the sector or on an agency, department or municipality above it
TemGerenciaSobreSetor(u, setor) ==
    \/ \E s \in scopes :
          /\ s.user = u.id /\ s.nivel = GERENCIA
          /\ \/ (s.tipo = "setor" /\ s.alvo = setor)
             \/ (s.tipo = "orgao" /\ s.alvo = Setor_orgao[setor])
             \/ (s.tipo = "secretaria" /\ s.alvo \in SecretariasDoSetor(setor))
             \/ (s.tipo = "prefeitura" /\ s.alvo \in PrefeiturasDoSetor(setor))
    \/ \E x \in acessos :
          /\ x.user = u.id /\ x.nivel = GERENCIA
          /\ \/ (x.tabela = "AcessoSetor" /\ x.alvo = setor)
             \/ (x.tabela = "AcessoOrgao" /\ x.alvo = Setor_orgao[setor])
             \/ (x.tabela = "AcessoSecretaria" /\ x.alvo \in SecretariasDoSetor(setor))
             \/ (x.tabela = "AcessoPrefeitura" /\ x.alvo \in PrefeiturasDoSetor(setor))

\* C3: for a user without the superuser and staff flags, an employee E and a
\* GERENCIA feature, user_can_feature is true only if the user holds a
\* GERENCIA grant covering E's sector; FuncaoPermissao rows, whatever their
\* level and scope, do not make the check pass without it.
C3_FuncaoNaoSubstituiEscopo ==
    \A u \in NaoAdmins, e \in Funcionario, f \in RestritasUmaPorRegra :
        user_can_feature(u, f, Alvo("Funcionario", e)) => TemGerenciaSobreSetor(u, Funcionario_setor[e])

\* the user reads F1 through a READ scope on S1 and holds a GERENCIA
\* FuncaoPermissao row for F1's title: the title policy passes, the check fails
C3_Witness ==
    LET u == [id |-> "u1", is_authenticated |-> TRUE, is_superuser |-> FALSE,
              is_staff |-> FALSE, funcionario |-> None]
    IN  /\ UserScopeRow("u1", "setor", "S1", LEITURA) \in scopes
        /\ FuncaoPermissaoRow("u1", "COORDENADOR", GERENCIA, None, None) \in permissoes_funcao
        /\ has_funcao_permission(u, "F1", GERENCIA)
        /\ ~TemGerenciaSobreSetor(u, "S1")
        /\ ~user_can_feature(u, "EDIT_FUNCIONARIO", Alvo("Funcionario", "F1"))

\* a READ grant on the sector, in the per-level table or in the unified table
TemLeituraNoSetor(u, setor) ==
    \/ AcessoRow("AcessoSetor", u.id, setor, LEITURA) \in acessos
    \/ UserScopeRow(u.id, "setor", setor, LEITURA) \in scopes

\* a grant row of any level on the department or on its municipality
TemConcessaoNaSecretariaOuAcima(u, sec) ==
    \/ \E s \in scopes :
          /\ s.user = u.id
          /\ \/ (s.tipo = "secretaria" /\ s.alvo = sec)
             \/ (s.tipo = "prefeitura" /\ s.alvo = Secretaria_prefeitura[sec])
    \/ \E x \in acessos :
          /\ x.user = u.id
          /\ \/ (x.tabela = "AcessoSecretaria" /\ x.alvo = sec)
             \/ (x.tabela = "AcessoPrefeitura" /\ x.alvo = Secretaria_prefeitura[sec])

\* C4: once a user without the superuser and staff flags holds a READ grant
\* on a sector S, the department and the municipality S resolves to are in
\* the sets user_scope returns, and a GERENCIA feature on that department
\* is refused unless the user holds a grant at the department level or above.
C4_VisibilidadeSemGerencia ==
    \A u \in NaoAdminsAut, setor \in Setor :
        TemLeituraNoSetor(u, setor) =>
            LET c == _resolve_chain_from_setor(setor)
            IN  /\ c.secretaria # None => c.secretaria \in user_scope(u).secretarias
                /\ c.prefeitura # None => c.prefeitura \in user_scope(u).prefeituras
                /\ c.secretaria # None =>
                      \A f \in GerenciaFeatures :
                          user_can_feature(u, f, Alvo("Secretaria", c.secretaria))
                              => TemConcessaoNaSecretariaOuAcima(u, c.secretaria)

\* C5: for an authenticated user without flags and without linked employee
\* whose single grant row is a sector-level grant on S, filter_setores_by_scope
\* returns only S and filter_funcionarios_by_scope only the employees of S.
C5_SoOSetorConcedido ==
    \A u \in NaoAdminsAut, setor \in Setor, nivel \in Nivel :
        (/\ u.funcionario = None
         /\ \/ LinhasDe(u) = {AcessoRow("AcessoSetor", u.id, setor, nivel)}
            \/ LinhasDe(u) = {UserScopeRow(u.id, "setor", setor, nivel)}) =>
            /\ filter_setores_by_scope(Setor, u) = {setor}
            /\ filter_funcionarios_by_scope(Funcionario, u)
                  = {f \in Funcionario : Funcionario_setor[f] = setor}

\* every filter membership and every positive check of the user before the
\* step is there after it
AcessoMantido(u) ==
    /\ filter_setores_by_scope(Setor, u) \subseteq filter_setores_by_scope(Setor, u)'
    /\ filter_funcionarios_by_scope(Funcionario, u) \subseteq filter_funcionarios_by_scope(Funcionario, u)'
    /\ filter_folhas_by_scope(FolhaFrequencia, u) \subseteq filter_folhas_by_scope(FolhaFrequencia, u)'
    /\ filter_horarios_by_scope(HorarioTrabalho, u) \subseteq filter_horarios_by_scope(HorarioTrabalho, u)'
    /\ \A f \in FeaturesUmaPorRegra, a \in Alvos \cup {SemAlvo} :
          user_can_feature(u, f, a) => user_can_feature(u, f, a)'

\* every filter membership and every positive check of the user after the
\* step was there before it
AcessoNaoAumenta(u) ==
    /\ filter_setores_by_scope(Setor, u)' \subseteq filter_setores_by_scope(Setor, u)
    /\ filter_funcionarios_by_scope(Funcionario, u)' \subseteq filter_funcionarios_by_scope(Funcionario, u)
    /\ filter_folhas_by_scope(FolhaFrequencia, u)' \subseteq filter_folhas_by_scope(FolhaFrequencia, u)
    /\ filter_horarios_by_scope(HorarioTrabalho, u)' \subseteq filter_horarios_by_scope(HorarioTrabalho, u)
    /\ \A f \in FeaturesUmaPorRegra, a \in Alvos \cup {SemAlvo} :
          user_can_feature(u, f, a)' => user_can_feature(u, f, a)

\* users without flags: with no employee, and linked to an employee of D2
UsuariosComuns == {u \in NaoAdminsAut : u.funcionario \in {None, "F3"}}

\* every row present before the step is present after it, at its level or,
\* for the per-level tables, at a higher one
LinhasCrescem ==
    /\ vars' # vars
    /\ scopes \subseteq scopes'
    /\ permissoes_funcao \subseteq permissoes_funcao'
    /\ \A x \in acessos : \E y \in acessos' :
          /\ y.tabela = x.tabela /\ y.user = x.user /\ y.alvo = x.alvo
          /\ _nivel_to_int(y.nivel) >= _nivel_to_int(x.nivel)

\* the step only removes rows
LinhasDiminuem ==
    /\ vars' # vars
    /\ scopes' \subseteq scopes
    /\ permissoes_funcao' \subseteq permissoes_funcao
    /\ acessos' \subseteq acessos

\* the step is one of the operations that write a GERENCIA grant
CriaGerencia ==
    /\ vars' # vars
    /\ \/ \E t \in AcessoAdminTargets : conceder_acesso_bulk({"u1"}, EscopoDe[t[1]], GERENCIA, t[2])
       \/ \E t \in AcessoAdminTargets : AcessoAdmin_add(t[1], "u1", t[2], GERENCIA)
       \/ \E orgao \in Orgao : AcessoOrgao_add("u1", orgao, GERENCIA)
       \/ \E alvos \in UserScopeFormAlvos : UserScopeAdmin_add("u1", GERENCIA, alvos)
       \/ \E p \in ScopeManagerPosts :
             p.nivel \in {GERENCIA, ""} /\ scope_manager_add(p.req, p.user_id, p.nivel, p.alvo[1], p.alvo[2])
       \/ \E queryset \in SUBSET acessos : action_set_gerencia(queryset)

\* C6: access is the union of what the rows present give.  A step that writes
\* a GERENCIA grant, and any step after which every earlier row is still
\* there (at its level or a higher one), keeps every filter membership and
\* every positive check the user had; a step that only removes rows leaves
\* no access the rows before it did not give, so the access of the rows that
\* remain is kept whatever other row is deleted.
C6_AcessoUniaoDasLinhas ==
    [][/\ (LinhasCrescem \/ CriaGerencia) => \A u \in UsuariosComuns : AcessoMantido(u)
       /\ LinhasDiminuem => \A u \in UsuariosComuns : AcessoNaoAumenta(u)]_vars

\* two rows of different tables give access to S1: a READ scope on the sector
\* and a GERENCIA grant on its department
C6_Witness ==
    LET u == [id |-> "u1", is_authenticated |-> TRUE, is_superuser |-> FALSE,
              is_staff |-> FALSE, funcionario |-> None]
    IN  /\ UserScopeRow("u1", "setor", "S1", LEITURA) \in scopes
        /\ AcessoRow("AcessoSecretaria", "u1", "D1", GERENCIA) \in acessos
        /\ "S1" \in filter_setores_by_scope(Setor, u)
        /\ user_can_feature(u, "EXCLUIR_FOLHA", Alvo("Setor", "S1"))
        /\ user_can_feature(u, "VER_FOLHAS", Alvo("Setor", "S1"))

\* the step is one of the operations that grant LEITURA to u1
ConcedeLeitura ==
    \/ \E t \in AcessoAdminTargets : conceder_acesso_bulk({"u1"}, EscopoDe[t[1]], LEITURA, t[2])
    \/ \E p \in ConcederPosts :
          p.nivel = LEITURA /\ acessos_conceder(p.req, p.user_id, p.nivel, p.alvos)
    \/ \E t \in AcessoAdminTargets : AcessoAdmin_add(t[1], "u1", t[2], LEITURA)
    \/ \E orgao \in Orgao : AcessoOrgao_add("u1", orgao, LEITURA)
    \/ \E alvos \in UserScopeFormAlvos : UserScopeAdmin_add("u1", LEITURA, alvos)
    \/ \E p \in ScopeManagerPosts :
          p.nivel = LEITURA /\ scope_manager_add(p.req, p.user_id, p.nivel, p.alvo[1], p.alvo[2])

\* every GERENCIA check that passed before the step passes after it
GerenciaMantida ==
    \A u \in UsuariosComuns, f \in GerenciaUmaPorRegra, a \in Alvos \cup {SemAlvo} :
        user_can_feature(u, f, a) => user_can_feature(u, f, a)'

\* C7 as stated: no operation that grants LEITURA (acessos_conceder, the admin
\* bulk grant, a row added in any table) makes a GERENCIA check fail that
\* passed before it.
C7_Original == [][(vars' # vars /\ ConcedeLeitura) => GerenciaMantida]_vars

\* C7 (amended): a LEITURA grant written as a row of its own, beside the rows
\* already there, makes no GERENCIA check fail that passed before it.
C7_LeituraEmOutraLinhaNaoRebaixa ==
    [][(/\ vars' # vars
        /\ acessos \subseteq acessos' /\ scopes \subseteq scopes'
        /\ ConcedeLeitura) => GerenciaMantida]_vars

\* a GERENCIA grant on D1 in AcessoSecretaria and a LEITURA scope on D1 in
\* UserScope are both present and the GERENCIA check on D1 passes
C7_Witness ==
    LET u == [id |-> "u1", is_authenticated |-> TRUE, is_superuser |-> FALSE,
              is_staff |-> FALSE, funcionario |-> None]
    IN  /\ AcessoRow("AcessoSecretaria", "u1", "D1", GERENCIA) \in acessos
        /\ UserScopeRow("u1", "secretaria", "D1", LEITURA) \in scopes
        /\ user_can_feature(u, "EDIT_HORARIO", Alvo("Secretaria", "D1"))

\* users of every flag combination without employee, and the users without
\* flags linked to each employee
UsuariosVariados ==
    {u \in Users : u.id = "u1" /\ (u.funcionario = None \/ u \in NaoAdminsAut)}

\* C8: GERENCIA implies LEITURA.  For every user and every employee, sector,
\* department or municipality target, if user_can_feature passes for some
\* GERENCIA feature that is not superuser-only, it passes for every LEITURA
\* feature on the same target.
C8_GerenciaImplicaLeitura ==
    \A u \in UsuariosVariados, a \in AlvosHierarquia :
        (\E f \in GerenciaUmaPorRegra : user_can_feature(u, f, a))
            => \A g \in LeituraUmaPorRegra : user_can_feature(u, g, a)

\* the only row is a GERENCIA grant on D1: the GERENCIA and the LEITURA
\* features pass on a sector of D1
C8_Witness ==
    LET u == [id |-> "u1", is_authenticated |-> TRUE, is_superuser |-> FALSE,
              is_staff |-> FALSE, funcionario |-> None]
    IN  /\ acessos = {AcessoRow("AcessoSecretaria", "u1", "D1", GERENCIA)}
        /\ scopes = {} /\ permissoes_funcao = {}
        /\ user_can_feature(u, "CAD_HORARIO", Alvo("Setor", "S1"))
        /\ user_can_feature(u, "VER_FOLHAS", Alvo("Setor", "S1"))

\* users that are not superusers, staff included
NaoSuperusers == {u \in Users : u.id = "u1" /\ ~u.is_superuser /\ u.funcionario \in {None, "F1"}}

\* C9: the features ACESSOS_CONCEDER, ACESSOS_REVOGAR, SCOPES_MANAGER and
\* SCOPES_DEBUG are refused to every user who is not a superuser, staff
\* included, whatever rows the user holds and whatever the target.
C9_SoSuperuser ==
    \A u \in NaoSuperusers, a \in Alvos \cup {SemAlvo} :
        \A f \in {"ACESSOS_CONCEDER", "ACESSOS_REVOGAR", "SCOPES_MANAGER", "SCOPES_DEBUG"} :
            ~user_can_feature(u, f, a)

\* with a GERENCIA scope on P1 in place, a staff user and a user without
\* flags pass a GERENCIA feature on P1 and are refused SCOPES_MANAGER
C9_Witness ==
    LET staff == [id |-> "u1", is_authenticated |-> TRUE, is_superuser |-> FALSE,
                  is_staff |-> TRUE, funcionario |-> None]
        u == [staff EXCEPT !.is_staff = FALSE]
    IN  /\ UserScopeRow("u1", "prefeitura", "P1", GERENCIA) \in scopes
        /\ user_can_feature(staff, "CAD_FERIADO", Alvo("Prefeitura", "P1"))
        /\ user_can_feature(u, "CAD_FERIADO", Alvo("Prefeitura", "P1"))
        /\ ~user_can_feature(staff, "SCOPES_MANAGER", Alvo("Prefeitura", "P1"))
        /\ ~user_can_feature(u, "SCOPES_MANAGER", Alvo("Prefeitura", "P1"))

\* a GERENCIA row of the user in the unified table or in the municipality,
\* department, agency or sector table
TemAlgumaGerencia(u) ==
    \/ \E s \in scopes : s.user = u.id /\ s.nivel = GERENCIA
    \/ \E x \in acessos :
          /\ x.user = u.id /\ x.nivel = GERENCIA
          /\ x.tabela \in {"AcessoPrefeitura", "AcessoSecretaria", "AcessoOrgao", "AcessoSetor"}

\* C10: with no target, an authenticated user without flags is allowed a
\* GERENCIA feature exactly when the user holds at least one GERENCIA row in
\* the municipality, department, agency or sector table or in the unified table.
C10_SemAlvoGerencia ==
    \A u \in NaoAdminsAut, f \in GerenciaFeatures :
        user_can_feature(u, f, SemAlvo) <=> TemAlgumaGerencia(u)

\* the six id sets of a scope joined
IdsDoEscopo(s) ==
    s.prefeituras \cup s.secretarias \cup s.orgaos \cup s.setores \cup s.escolas \cup s.departamentos

\* C11: with no target, a user without the superuser and the staff flag is
\* allowed a LEITURA feature exactly when one of the id sets of the user's
\* user_scope is not empty.
C11_SemAlvoLeitura ==
    \A u \in NaoAdmins, f \in LeituraFeatures :
        user_can_feature(u, f, SemAlvo) <=> IdsDoEscopo(user_scope(u)) # {}

\* one LEITURA row in the sector table: the scope of a user without employee
\* is not empty and a LEITURA feature passes with no target, while a user
\* without rows for whom the check is made at the same moment is refused
C11_Witness ==
    LET u == [id |-> "u1", is_authenticated |-> TRUE, is_superuser |-> FALSE,
              is_staff |-> FALSE, funcionario |-> None]
    IN  /\ acessos = {AcessoRow("AcessoSetor", "u1", "S4", LEITURA)}
        /\ scopes = {} /\ permissoes_funcao = {}
        /\ user_scope(u).setores = {"S4"}
        /\ user_can_feature(u, "VER_PAINEL", SemAlvo)
        /\ ~user_can_feature([u EXCEPT !.id = "u2"], "VER_PAINEL", SemAlvo)
        /\ ~user_can_feature(u, "CAD_HORARIO", SemAlvo)

\* the unified column and the per-level table of a target kind
ColunaDoTipo == [tipo \in {"Setor", "Secretaria", "Prefeitura"} |->
                    CASE tipo = "Setor" -> "setor" [] tipo = "Secretaria" -> "secretaria"
                      [] OTHER -> "prefeitura"]

TabelaDoTipo == [tipo \in {"Setor", "Secretaria", "Prefeitura"} |->
                    CASE tipo = "Setor" -> "AcessoSetor" [] tipo = "Secretaria" -> "AcessoSecretaria"
                      [] OTHER -> "AcessoPrefeitura"]

\* a row level that meets the required one
NivelBasta(nivel_linha, nivel) == nivel = LEITURA \/ nivel_linha = GERENCIA

\* a unified row of the user on the entity itself, at the level or above
TemEscopoDireto(u, nivel, alvo) ==
    \E s \in scopes : /\ s.user = u.id /\ s.tipo = ColunaDoTipo[alvo.tipo] /\ s.alvo = alvo.id
                       /\ NivelBasta(s.nivel, nivel)

\* a row of the user in the per-level table of the entity's level, on the
\* entity itself, at the level or above
TemAcessoDireto(u, nivel, alvo) ==
    \E x \in acessos : /\ x.user = u.id /\ x.tabela = TabelaDoTipo[alvo.tipo] /\ x.alvo = alvo.id
                        /\ NivelBasta(x.nivel, nivel)

AlvosSetorSecretariaPrefeitura == {a \in Alvos : a.tipo \in {"Setor", "Secretaria", "Prefeitura"}}

\* C12: for a sector, department or municipality target, an authenticated
\* user without flags who holds a row on that entity at the level the feature
\* requires or above, in the unified table or in the per-level table of that
\* level, passes user_can_feature for the feature and the target (the
\* superuser-only features left aside).
C12_ConcessaoDiretaBasta ==
    \A u \in NaoAdminsAut, f \in NaoRestritasUmaPorRegra, a \in AlvosSetorSecretariaPrefeitura :
        (TemEscopoDireto(u, FEATURE_RULES[f].nivel, a) \/ TemAcessoDireto(u, FEATURE_RULES[f].nivel, a))
            => user_can_feature(u, f, a)

\* targets of a type other than employee, sector, department, municipality
AlvosNaoReconhecidos == Alvos \ AlvosHierarquia

\* the department and the municipality above a legacy school or departamento
SecretariaDoLegado(a) ==
    IF a.tipo = "Escola" THEN Escola_secretaria[a.id]
    ELSE IF a.tipo = "Departamento" THEN Departamento_secretaria[a.id]
    ELSE None

PrefeituraDoLegado(a) ==
    IF SecretariaDoLegado(a) # None THEN Secretaria_prefeitura[SecretariaDoLegado(a)]
    ELSE IF a.tipo = "Departamento" THEN Departamento_prefeitura[a.id]
    ELSE None

\* a row of the user on the legacy target itself or on the department or
\* the municipality above it
CobreLegado(u, a) ==
    /\ a.tipo \in {"Escola", "Departamento"}
    /\ \/ \E s \in scopes :
              /\ s.user = u.id
              /\ \/ (s.tipo = "escola" /\ a.tipo = "Escola" /\ s.alvo = a.id)
                 \/ (s.tipo = "departamento" /\ a.tipo = "Departamento" /\ s.alvo = a.id)
                 \/ (s.tipo = "secretaria" /\ s.alvo = SecretariaDoLegado(a))
                 \/ (s.tipo = "prefeitura" /\ s.alvo = PrefeituraDoLegado(a))
       \/ \E x \in acessos :
              /\ x.user = u.id
              /\ \/ (x.tabela = "AcessoEscola" /\ a.tipo = "Escola" /\ x.alvo = a.id)
                 \/ (x.tabela = "AcessoSecretaria" /\ x.alvo = SecretariaDoLegado(a))
                 \/ (x.tabela = "AcessoPrefeitura" /\ x.alvo = PrefeituraDoLegado(a))

\* C13: for a user without flags, every feature and every target that is
\* not an employee, a sector, a department or a municipality, user_can_feature
\* is false; for a legacy school or departamento this is so whenever no row
\* of the user covers the target.
C13_AlvoDesconhecidoNegado ==
    \A u \in NaoAdmins, f \in FeaturesUmaPorRegra, a \in AlvosNaoReconhecidos :
        ~CobreLegado(u, a) => ~user_can_feature(u, f, a)

\* the grant rows of the user are this one unified row and nothing else
UnicaConcessaoEscopo(u, linha) ==
    /\ user_scopes(u) = {linha}
    /\ \A x \in acessos : x.user # u.id

\* the sectors whose resolved department is sec
SetoresDaSecretaria(sec) == {s \in Setor : _resolve_chain_from_setor(s).secretaria = sec}

\* the filter result holds every sector of sec and no sector of another department
VeSoASecretaria(u, sec) ==
    /\ SetoresDaSecretaria(sec) \subseteq filter_setores_by_scope(Setor, u)
    /\ \A d \in Secretaria \ {sec} : filter_setores_by_scope(Setor, u) \cap SetoresDaSecretaria(d) = {}

\* C14 as stated: for an authenticated user without flags whose only grant
\* is a unified GERENCIA row on department D, filter_setores_by_scope over all
\* sectors returns every sector whose resolved department is D, directly or
\* through an agency, and no sector of a sibling department.
C14_Original ==
    \A u \in NaoAdminsAut, sec \in Secretaria :
        UnicaConcessaoEscopo(u, UserScopeRow(u.id, "secretaria", sec, GERENCIA)) => VeSoASecretaria(u, sec)

\* C14: the same for the users with no linked employee.
C14_EscopoSecretariaSemFuncionario ==
    \A u \in NaoAdminsAut, sec \in Secretaria :
        (/\ u.funcionario = None
         /\ UnicaConcessaoEscopo(u, UserScopeRow(u.id, "secretaria", sec, GERENCIA)))
            => VeSoASecretaria(u, sec)

\* the single row is a GERENCIA scope on D1: S1 (direct) and S2 (through the
\* agency O1) are returned and nothing else
C14_Witness ==
    LET u == [id |-> "u1", is_authenticated |-> TRUE, is_superuser |-> FALSE,
              is_staff |-> FALSE, funcionario |-> None]
    IN  /\ scopes = {UserScopeRow("u1", "secretaria", "D1", GERENCIA)}
        /\ acessos = {}
        /\ filter_setores_by_scope(Setor, u) = {"S1", "S2"}
        /\ SetoresDaSecretaria("D1") = {"S1", "S2"}
        /\ SetoresDaSecretaria("D2") = {"S3"}

\* the grant rows of the user are this one per-level row and nothing else
UnicaConcessaoAcesso(u, linha) ==
    /\ acessos_de(linha.tabela, u) = {linha}
    /\ \A x \in acessos : x.user = u.id => x = linha
    /\ user_scopes(u) = {}

\* sectors that point at the department directly, with no agency
SetoresDiretos(sec) == {s \in Setor : Setor_secretaria[s] = sec /\ Setor_orgao[s] = None}

\* sectors under an agency of the department
SetoresPorOrgao(sec) == {s \in Setor : Setor_orgao[s] # None /\ Orgao_secretaria[Setor_orgao[s]] = sec}

\* C15: for an authenticated user without flags whose only grant is an
\* AcessoSecretaria row on department D, filter_setores_by_scope returns the
\* sectors that point at D directly and the sectors under an agency of D;
\* the user holds no row on an agency.
C15_SecretariaCobreSubarvore ==
    \A u \in NaoAdminsAut, sec \in Secretaria, nivel \in Nivel :
        UnicaConcessaoAcesso(u, AcessoRow("AcessoSecretaria", u.id, sec, nivel)) =>
            SetoresDiretos(sec) \cup SetoresPorOrgao(sec) \subseteq filter_setores_by_scope(Setor, u)

\* the single row is a LEITURA AcessoSecretaria on D1: S1 points at D1, S2
\* sits under the agency O1 of D1, both are returned and the scope of a user
\* without employee names no agency
C15_Witness ==
    LET u == [id |-> "u1", is_authenticated |-> TRUE, is_superuser |-> FALSE,
              is_staff |-> FALSE, funcionario |-> None]
    IN  /\ acessos = {AcessoRow("AcessoSecretaria", "u1", "D1", LEITURA)}
        /\ scopes = {}
        /\ SetoresDiretos("D1") = {"S1"} /\ SetoresPorOrgao("D1") = {"S2"}
        /\ {"S1", "S2"} \subseteq filter_setores_by_scope(Setor, u)
        /\ user_scope(u).orgaos = {}

\* authenticated users without flags that have a linked employee
ComFuncionario == {u \in NaoAdminsAut : u.funcionario # None}

AlvosProprios(u) ==
    LET setor == Funcionario_setor[u.funcionario]
        c == _resolve_chain_from_setor(setor)
    IN  {Alvo("Setor", setor), Alvo("Funcionario", u.funcionario)}
        \cup (IF c.secretaria # None THEN {Alvo("Secretaria", c.secretaria)} ELSE {})
        \cup (IF c.prefeitura # None THEN {Alvo("Prefeitura", c.prefeitura)} ELSE {})

\* C17: a user without flags who has a linked employee and no row in the
\* unified table and in the per-level tables is refused every GERENCIA
\* feature, with no target and with the user's own sector, employee,
\* department or municipality as target, whatever FuncaoPermissao rows exist.
C17_EscopoProprioSoLeitura ==
    \A u \in ComFuncionario :
        (user_scopes(u) = {} /\ \A x \in acessos : x.user # u.id) =>
            \A f \in GerenciaFeatures \cup SuperuserOnlyFeatures, a \in AlvosProprios(u) \cup {SemAlvo} :
                ~user_can_feature(u, f, a)

\* the user is linked to F1 and holds no grant; a GERENCIA FuncaoPermissao
\* row for F1's title exists: the self-scope lets a LEITURA feature pass
\* with no target and the title policy passes for F1, while a GERENCIA
\* feature on F1 and on the own sector S1 is refused
C17_Witness ==
    LET u == [id |-> "u1", is_authenticated |-> TRUE, is_superuser |-> FALSE,
              is_staff |-> FALSE, funcionario |-> "F1"]
    IN  /\ scopes = {} /\ acessos = {}
        /\ permissoes_funcao = {FuncaoPermissaoRow("u1", "COORDENADOR", GERENCIA, None, None)}
        /\ user_can_feature(u, "VER_PAINEL", SemAlvo)
        /\ has_funcao_permission(u, "F1", GERENCIA)
        /\ ~user_can_feature(u, "EDIT_FUNCIONARIO", Alvo("Funcionario", "F1"))
        /\ ~user_can_feature(u, "CAD_HORARIO", Alvo("Setor", "S1"))
        /\ ~user_can_feature(u, "CAD_HORARIO", SemAlvo)

\* POSTs to acessos_conceder that fill no target field or more than one
ConcederPostsSemUmAlvo ==
    {p \in ConcederPosts :
        Cardinality({k \in {"prefeitura", "secretaria", "orgao", "setor"} : p.alvos[k] # ""}) # 1}

\* POSTs to scope_manager add that leave the target type or the target id out
ScopeManagerPostsSemAlvo == {p \in ScopeManagerPosts : p.alvo[1] = "" \/ p.alvo[2] = ""}

\* admin forms that fill no target column or more than one
UserScopeFormsSemUmAlvo == {alvos \in UserScopeFormAlvos : Cardinality(alvos) # 1}

\* a step of one of the three operations with a request that does not name
\* exactly one target
PedidoSemUmAlvo ==
    \/ \E p \in ConcederPostsSemUmAlvo : acessos_conceder(p.req, p.user_id, p.nivel, p.alvos)
    \/ \E p \in ScopeManagerPostsSemAlvo :
          scope_manager_add(p.req, p.user_id, p.nivel, p.alvo[1], p.alvo[2])
    \/ \E user_id \in GrantUserIds, nivel \in Nivel, alvos \in UserScopeFormsSemUmAlvo :
          UserScopeAdmin_add(user_id, nivel, alvos)

\* a step of one of the three operations, whatever the request
PedidoDeConcessao ==
    \/ \E p \in ConcederPosts : acessos_conceder(p.req, p.user_id, p.nivel, p.alvos)
    \/ \E p \in ScopeManagerPosts : scope_manager_add(p.req, p.user_id, p.nivel, p.alvo[1], p.alvo[2])
    \/ \E user_id \in GrantUserIds, nivel \in Nivel, alvos \in UserScopeFormAlvos :
          UserScopeAdmin_add(user_id, nivel, alvos)

NaoSuperRequesters == {r \in Requesters : ~r.is_superuser}

\* a request of a requester of R to one of the three management views, with
\* any form content
PedidoDeGestao(R) ==
    \/ \E req \in R, user_id \in GrantUserIds, nivel \in Nivel \cup {"gerencia"}, a \in ConcederAlvos :
          acessos_conceder(req, user_id, nivel, a)
    \/ \E req \in R, scope \in scopes : acessos_revogar(req, scope)
    \/ \E req \in R, user_id \in GrantUserIds, nivel \in Nivel \cup {""}, alvo \in ScopeManagerAlvos :
          scope_manager_add(req, user_id, nivel, alvo[1], alvo[2])
    \/ \E req \in R, scope \in scopes : scope_manager_delete(req, scope)

\* C19: in every reachable state, no request to acessos_conceder,
\* acessos_revogar or scope_manager made by a requester who is not a
\* superuser (anonymous, ordinary or staff) can change a grant table.
C19_GestaoSoSuperuser == ~ENABLED (PedidoDeGestao(NaoSuperRequesters) /\ vars' # vars)

\* one unified row is stored: a superuser's request to scope_manager add and
\* one to acessos_revogar can change the tables
C19_Witness ==
    /\ scopes = {UserScopeRow("u1", "setor", "S1", GERENCIA)}
    /\ acessos = {} /\ permissoes_funcao = {}
    /\ ENABLED (/\ \E req \in Requesters \ NaoSuperRequesters :
                       scope_manager_add(req, "u1", LEITURA, "prefeitura", "P1")
                /\ vars' # vars)
    /\ ENABLED (/\ \E req \in Requesters \ NaoSuperRequesters, scope \in scopes :
                       acessos_revogar(req, scope)
                /\ vars' # vars)

\* user objects that are not authenticated, with every combination of the
\* superuser and staff flags and every linked employee
NaoAutenticados == {u \in Users : u.id = "u1" /\ ~u.is_authenticated}

\* C30: for a user that is not authenticated, whatever rows name the user
\* and whatever the superuser and staff flags, user_scope returns all=FALSE
\* with every id set empty, every filter returns no row, and user_can_feature
\* and has_funcao_permission are false for every feature, level and target.
C30_NaoAutenticadoSemAcesso ==
    \A u \in NaoAutenticados :
        /\ ~user_scope(u).all
        /\ IdsDoEscopo(user_scope(u)) = {}
        /\ FiltrosDevolvemVazio(u)
        /\ \A f \in FeaturesUmaPorRegra, a \in Alvos \cup {SemAlvo} : ~user_can_feature(u, f, a)
        /\ \A e \in Funcionario, nivel \in Nivel : ~has_funcao_permission(u, e, nivel)

\* the user holds a GERENCIA scope on P1 and a GERENCIA FuncaoPermissao row
\* for F1's title: the authenticated user passes the checks on F1, the same
\* object with is_authenticated false and both flags set does not
C30_Witness ==
    LET u == [id |-> "u1", is_authenticated |-> TRUE, is_superuser |-> FALSE,
              is_staff |-> FALSE, funcionario |-> None]
        anon == [u EXCEPT !.is_authenticated = FALSE, !.is_superuser = TRUE, !.is_staff = TRUE]
    IN  /\ scopes = {UserScopeRow("u1", "prefeitura", "P1", GERENCIA)}
        /\ permissoes_funcao = {FuncaoPermissaoRow("u1", "COORDENADOR", GERENCIA, None, None)}
        /\ user_can_feature(u, "EDIT_FUNCIONARIO", Alvo("Funcionario", "F1"))
        /\ has_funcao_permission(u, "F1", GERENCIA)
        /\ "F1" \in filter_funcionarios_by_scope(Funcionario, u)
        /\ ~user_can_feature(anon, "EDIT_FUNCIONARIO", Alvo("Funcionario", "F1"))
        /\ ~has_funcao_permission(anon, "F1", GERENCIA)
        /\ filter_funcionarios_by_scope(Funcionario, anon) = {}

\* a FuncaoPermissao row of the user for the title of employee e, at the
\* level or above, whose restriction is unset or names the sector of e or a
\* department the sector of e hangs under
LinhaDeFuncaoValida(u, e, nivel) ==
    \E p \in permissoes_funcao :
        /\ p.user = u.id
        /\ _lower(p.nome_funcao) = _norm(Funcionario_funcao[e])
        /\ NivelBasta(p.nivel, nivel)
        /\ \/ (p.secretaria = None /\ p.setor = None)
           \/ (p.setor # None /\ p.setor = Funcionario_setor[e])
           \/ (p.secretaria # None /\ p.secretaria \in SecretariasDoSetor(Funcionario_setor[e]))

\* C22: for an authenticated user without flags, has_funcao_permission on
\* an employee passes only through a FuncaoPermissao row whose job title
\* equals the employee's without regard to case and whose restriction is
\* unset or equals the employee's sector or resolved department; a row
\* restricted to another sector or department does not count, also when the
\* employee's department resolves to none.
C22_RestricaoDaFuncao ==
    \A u \in NaoAdminsAut, e \in Funcionario, nivel \in Nivel :
        has_funcao_permission(u, e, nivel) => LinhaDeFuncaoValida(u, e, nivel)

\* C24: the two READ checks on an employee agree: for every user and employee,
\* user_can_feature with a READ-level feature on the employee returns the value
\* of assert_can_access_funcionario, which is the membership of the employee
\* in filter_funcionarios_by_scope over all employees
C24_LeiturasConcordam ==
    \A u \in Users, e \in Funcionario, f \in LeituraUmaPorRegra :
        /\ user_can_feature(u, f, Alvo("Funcionario", e)) = assert_can_access_funcionario(u, e)
        /\ assert_can_access_funcionario(u, e) = (e \in filter_funcionarios_by_scope(Funcionario, u))

\* the rows of the per-level tables A for one (table, user, target entity)
LinhasDoAlvo(A, tabela, user, alvo) ==
    {x \in A : x.tabela = tabela /\ x.user = user /\ x.alvo = alvo}

UmaLinhaPorAlvo(A) ==
    \A x \in A : LinhasDoAlvo(A, x.tabela, x.user, x.alvo) = {x}

\* a grant request (the bulk grant action of the admin, or acessos_conceder)
\* after which the target has not exactly the one row of the requested level,
\* or another row of the tables has changed
ConcessaoDuplica ==
    \/ \E t \in AcessoAdminTargets, nivel \in Nivel :
          /\ conceder_acesso_bulk({"u1"}, EscopoDe[t[1]], nivel, t[2])
          /\ \/ LinhasDoAlvo(acessos', t[1], "u1", t[2]) # {AcessoRow(t[1], "u1", t[2], nivel)}
             \/ acessos' \ LinhasDoAlvo(acessos', t[1], "u1", t[2])
                  # acessos \ LinhasDoAlvo(acessos, t[1], "u1", t[2])
    \/ \E p \in ConcederPosts :
          /\ acessos_conceder(p.req, p.user_id, p.nivel, p.alvos)
          /\ ~UmaLinhaPorAlvo(acessos')

TabelasDeConceder == {"AcessoPrefeitura", "AcessoSecretaria", "AcessoOrgao", "AcessoSetor"}

\* users whose access comes from grant rows alone: no flag, no linked employee
SoPorConcessao == {u \in NaoAdminsAut : u.funcionario = None}

\* C26: every row of the tables acessos_conceder writes to (a grant on a
\* municipality, department, agency or sector) is among the rows
\* acessos_revogar lists and can be deleted by a superuser's request to it;
\* and no deletion through acessos_revogar of the only row of a user leaves
\* that user with a sector, employee, timesheet or schedule still returned.
C26_ConcedidoPodeSerRevogado ==
    /\ \A x \in acessos : x.tabela \in TabelasDeConceder =>
          /\ x \in acessos_revogar_escopos
          /\ ENABLED (/\ \E req \in Requesters, scope \in acessos_revogar_escopos :
                             acessos_revogar(req, scope)
                      /\ x \notin acessos')
    /\ \A u \in SoPorConcessao :
          ~ENABLED (/\ \E req \in Requesters, scope \in acessos_revogar_escopos :
                           LinhasDe(u) = {scope} /\ acessos_revogar(req, scope)
                    /\ scopes' # scopes
                    /\ ~FiltrosDevolvemVazio(u)')

\* user objects with the id the grant rows are written for: every flag
\* combination and every linked employee
UsuariosDasLinhas == {u \in Users : u.id = "u1"}

\* C27: in every reachable state and for every user the four scope filters
\* agree: an employee is returned by filter_funcionarios_by_scope exactly when
\* its sector is returned by filter_setores_by_scope, and a timesheet or a
\* work schedule is returned by filter_folhas_by_scope or
\* filter_horarios_by_scope exactly when its employee is returned by
\* filter_funcionarios_by_scope (a result is the set of the rows returned).
C27_FiltrosConcordam ==
    \A u \in UsuariosDasLinhas :
        LET vistos_setores == filter_setores_by_scope(Setor, u)
            vistos == filter_funcionarios_by_scope(Funcionario, u)
        IN  /\ vistos = {f \in Funcionario : Funcionario_setor[f] \in vistos_setores}
            /\ filter_folhas_by_scope(FolhaFrequencia, u)
                 = {fo \in FolhaFrequencia : FolhaFrequencia_funcionario[fo] \in vistos}
            /\ filter_horarios_by_scope(HorarioTrabalho, u)
                 = {h \in HorarioTrabalho : HorarioTrabalho_funcionario[h] \in vistos}

\* a user without flags and without employee holds one grant on department D1:
\* each filter returns some rows and leaves some out
C27_Witness ==
    /\ scopes = {UserScopeRow("u1", "secretaria", "D1", LEITURA)}
    /\ acessos = {} /\ permissoes_funcao = {}
    /\ \E u \in SoPorConcessao :
          /\ filter_setores_by_scope(Setor, u) = {"S1", "S2"}
          /\ filter_funcionarios_by_scope(Funcionario, u) = {"F1", "F2"}
          /\ filter_folhas_by_scope(FolhaFrequencia, u) = {"FO1"}
          /\ filter_horarios_by_scope(HorarioTrabalho, u) = {"H2"}

(***************************************************************************)
(* Calls of _resolve_chain_from_setor.  The Setor object of a call has any *)
(* combination of parent columns, one of them at least populated.          *)
(***************************************************************************)
SetorRows ==
    {r \in [orgao : Orgao \cup {None}, secretaria : Secretaria \cup {None},
            prefeitura : Prefeitura \cup {None}, departamento : Departamento \cup {None}] :
        r.orgao # None \/ r.secretaria # None \/ r.prefeitura # None \/ r.departamento # None}

\* a call is made with one Setor object and has not returned yet
InitCadeia ==
    /\ InitConcessoes
    /\ InitDados
    /\ pedido = SemPedido
    /\ avaliacao = SemAvaliacao
    /\ chamada \in {[pc |-> "chamada", setor |-> r] : r \in SetorRows}

\* the call returns (orgao, secretaria, prefeitura)
resolve_chain_retorna ==
    /\ chamada.pc = "chamada"
    /\ chamada' = [pc |-> "retorno", setor |-> chamada.setor,
                   retorno |-> _resolve_chain_from_setor_row(chamada.setor)]
    /\ UNCHANGED <<scopes, acessos, permissoes_funcao, funcionarios, folhas, pedido, avaliacao>>

NextCadeia == resolve_chain_retorna

SpecCadeia == InitCadeia /\ [][NextCadeia]_vars

\* the department a Setor object resolves to, by priority: its own reference,
\* the department of its agency, the department of its legacy departamento
SecretariaPorPrioridade(r) ==
    IF r.secretaria # None THEN r.secretaria
    ELSE IF r.orgao # None THEN Orgao_secretaria[r.orgao]
    ELSE IF r.departamento # None THEN Departamento_secretaria[r.departamento]
    ELSE None

\* the municipality by priority: the object's own reference, the municipality
\* of the resolved department, the municipality of the legacy departamento
PrefeituraPorPrioridade(r) ==
    IF r.prefeitura # None THEN r.prefeitura
    ELSE IF SecretariaPorPrioridade(r) # None THEN Secretaria_prefeitura[SecretariaPorPrioridade(r)]
    ELSE IF r.departamento # None THEN Departamento_prefeitura[r.departamento]
    ELSE None

\* C23: a returned call of _resolve_chain_from_setor gives the agency of the
\* Setor object, as department the object's own department reference when
\* set and otherwise the department of its agency (and, with neither, the one
\* of its legacy departamento), and as municipality the object's own
\* municipality reference when set and otherwise the municipality of the
\* resolved department (and, with no department resolved, the one of its
\* legacy departamento): no value of a lower-priority path is returned when a
\* higher-priority path is populated.
C23_PrioridadeDaCadeia ==
    chamada.pc = "retorno" =>
        /\ chamada.retorno.orgao = chamada.setor.orgao
        /\ chamada.retorno.secretaria = SecretariaPorPrioridade(chamada.setor)
        /\ chamada.retorno.prefeitura = PrefeituraPorPrioridade(chamada.setor)

(***************************************************************************)
(* The destructive views on employees and timesheets.                      *)
(***************************************************************************)
\* request.user of a view request: the user the grant rows are written for,
\* without flags and with each linked employee, as superuser, and anonymous
UsuariosDosPedidos ==
    {u \in Users : /\ u.id = "u1" /\ ~u.is_staff
                    /\ (u.is_superuser => u.is_authenticated /\ u.funcionario = None)
                    /\ (~u.is_authenticated => u.funcionario = None)}

\* @login_required; get_object_or_404; the scope check; delete, which cascades
\* to the timesheets of the employee
excluir_funcionario(user, id) ==
    /\ IF /\ user.is_authenticated
          /\ id \in funcionarios
          /\ assert_can_access_funcionario(user, id)
       THEN /\ funcionarios' = funcionarios \ {id}
            /\ folhas' = {fo \in folhas : FolhaFrequencia_funcionario[fo] # id}
       ELSE UNCHANGED <<funcionarios, folhas>>
    /\ UNCHANGED <<scopes, acessos, permissoes_funcao, pedido, chamada, avaliacao>>

excluir_folha(user, folha_id) ==
    /\ IF /\ user.is_authenticated
          /\ folha_id \in folhas
          /\ assert_can_access_funcionario(user, FolhaFrequencia_funcionario[folha_id])
       THEN folhas' = folhas \ {folha_id}
       ELSE UNCHANGED folhas
    /\ UNCHANGED <<scopes, acessos, permissoes_funcao, funcionarios, pedido, chamada, avaliacao>>

\* the grants stored around the requests, through the admin
AlvosDeEscopoDosPedidos == {<<"setor", "S1">>, <<"secretaria", "D2">>}

NextExcluir ==
    \/ \E nivel \in Nivel, alvo \in AlvosDeEscopoDosPedidos : UserScopeAdmin_add("u1", nivel, {alvo})
    \/ \E scope \in scopes : UserScopeAdmin_delete(scope)
    \/ \E nivel \in Nivel : AcessoAdmin_add("AcessoSetor", "u1", "S4", nivel)
    \/ \E x \in acessos : AcessoAdmin_delete(x)
    \/ \E user \in UsuariosDosPedidos, id \in Funcionario :
          (user.funcionario \in funcionarios \cup {None}) /\ excluir_funcionario(user, id)
    \/ \E user \in UsuariosDosPedidos, folha_id \in FolhaFrequencia :
          (user.funcionario \in funcionarios \cup {None}) /\ excluir_folha(user, folha_id)

SpecExcluir == Init /\ [][NextExcluir]_vars

\* every grant row that names the user has level READ
SoLeitura(u) == \A l \in LinhasDe(u) : l.nivel = LEITURA

\* a request of the user to excluir_funcionario or to excluir_folha that
\* removes a row
ExclusaoPor(u) ==
    /\ \/ \E id \in Funcionario : excluir_funcionario(u, id)
       \/ \E folha_id \in FolhaFrequencia : excluir_folha(u, folha_id)
    /\ (funcionarios' # funcionarios \/ folhas' # folhas)

\* C28: in every reachable state, a user without the superuser and staff flags
\* whose grant rows all have level READ (with or without a linked employee,
\* which adds the self-scope) can delete no employee through
\* excluir_funcionario and no timesheet through excluir_folha: every such
\* request leaves the employee and timesheet rows unchanged.
C28_SoLeituraNaoExclui ==
    \A u \in UsuariosDosPedidos :
        (u \in NaoAdminsAut /\ u.funcionario \in funcionarios \cup {None} /\ SoLeitura(u))
            => ~ENABLED ExclusaoPor(u)

(***************************************************************************)
(* A request to a view wrapped by require_feature(feature, resolver).      *)
(***************************************************************************)
\* the default deny_message of require_feature
DENY_MESSAGE == "Você não tem permissão para executar esta ação."

\* the target the resolver returns: none (no resolver, or no row found), a
\* sector, an employee
AlvosDosPedidos == {SemAlvo, Alvo("Setor", "S1"), Alvo("Funcionario", "F3")}

\* the wrapped view is called: _inner starts with the resolved target
require_feature_chamada(user, feature, alvo) ==
    /\ pedido.pc = "parado"
    /\ pedido' = [pc |-> "_inner", user |-> user, feature |-> feature, alvo |-> alvo,
                  permitido |-> FALSE, viewfunc |-> FALSE, messages |-> <<>>, resposta |-> None]
    /\ UNCHANGED <<scopes, acessos, permissoes_funcao, funcionarios, folhas, chamada, avaliacao>>

\* messages.error(request, message); redirect(reverse("controle:painel_controle"))
deny_and_redirect(request, message) ==
    [request EXCEPT !.pc = "resposta", !.messages = Append(@, message),
                    !.resposta = "redirect controle:painel_controle"]

\* mutation: _inner goes on to the view whatever the check returned
require_feature_inner_sem_negar ==
    /\ pedido.pc = "_inner"
    /\ pedido' = [pedido EXCEPT !.pc = "viewfunc",
                     !.permitido = user_can_feature(pedido.user, pedido.feature, pedido.alvo)]
    /\ UNCHANGED <<scopes, acessos, permissoes_funcao, funcionarios, folhas, chamada, avaliacao>>

\* _inner: the check, then the deny redirect or the call of the view
require_feature_inner ==
    /\ pedido.pc = "_inner"
    /\ pedido' = IF ~user_can_feature(pedido.user, pedido.feature, pedido.alvo)
                 THEN deny_and_redirect(pedido, DENY_MESSAGE)
                 ELSE [pedido EXCEPT !.pc = "viewfunc", !.permitido = TRUE]
    /\ UNCHANGED <<scopes, acessos, permissoes_funcao, funcionarios, folhas, chamada, avaliacao>>

\* the body of the wrapped view runs and returns its response
viewfunc ==
    /\ pedido.pc = "viewfunc"
    /\ pedido' = [pedido EXCEPT !.pc = "resposta", !.viewfunc = TRUE, !.resposta = "viewfunc"]
    /\ UNCHANGED <<scopes, acessos, permissoes_funcao, funcionarios, folhas, chamada, avaliacao>>

\* the response is sent: the request is over
pedido_termina ==
    /\ pedido.pc = "resposta"
    /\ pedido' = SemPedido
    /\ UNCHANGED <<scopes, acessos, permissoes_funcao, funcionarios, folhas, chamada, avaliacao>>

\* grant rows are stored and removed through the admin between the steps of a
\* request
NextRequire ==
    \/ \E nivel \in Nivel, alvo \in AlvosDeEscopoDosPedidos : UserScopeAdmin_add("u1", nivel, {alvo})
    \/ \E scope \in scopes : UserScopeAdmin_delete(scope)
    \/ \E nivel \in Nivel : AcessoAdmin_add("AcessoSecretaria", "u1", "D1", nivel)
    \/ \E x \in acessos : AcessoAdmin_delete(x)
    \/ \E user \in UsuariosDosPedidos, feature \in FeaturesUmaPorRegra \cup {"ver_folhas", "OUTRA"},
          alvo \in AlvosDosPedidos : require_feature_chamada(user, feature, alvo)
    \/ require_feature_inner
    \/ viewfunc
    \/ pedido_termina

SpecRequire == Init /\ [][NextRequire]_vars

\* the steps of the request in progress
PassoDoPedido == require_feature_inner \/ viewfunc

\* the response of a denied request: the deny redirect with the denial message
RespostaDeNegacao(p) ==
    /\ p.pc = "resposta"
    /\ ~p.viewfunc
    /\ p.resposta = "redirect controle:painel_controle"
    /\ p.messages = <<DENY_MESSAGE>>

\* C29: for a request to a view wrapped by require_feature, in every
\* reachable state: while the check is pending, the only step the request can
\* take goes to the view body if user_can_feature(request.user, feature,
\* resolved target) is true, and ends the request with the deny redirect and
\* the denial message, body not run, if it is false; the body is about to run
\* or has run only in a request whose check returned true; and a request whose
\* check did not return true ends with the deny redirect.
C29_CorpoSoDepoisDaVerificacao ==
    pedido.pc # "parado" =>
        /\ pedido.pc = "_inner" =>
              IF user_can_feature(pedido.user, pedido.feature, pedido.alvo)
              THEN ~ENABLED (PassoDoPedido /\ ~(pedido'.pc = "viewfunc" /\ pedido'.permitido))
              ELSE ~ENABLED (PassoDoPedido /\ ~RespostaDeNegacao(pedido'))
        /\ (pedido.pc = "viewfunc" \/ pedido.viewfunc) => pedido.permitido
        /\ (pedido.pc = "resposta" /\ ~pedido.permitido) => RespostaDeNegacao(pedido)

\* a request of a user without flags, with a READ feature on sector S1, has
\* run the view body after its check passed
C29_Witness ==
    /\ pedido.pc = "resposta"
    /\ pedido.user \in NaoAdminsAut
    /\ pedido.alvo = Alvo("Setor", "S1")
    /\ pedido.permitido /\ pedido.viewfunc /\ pedido.resposta = "viewfunc"

(***************************************************************************)
(* An authorization evaluation of one request, query by query, while the   *)
(* admin of another request writes a grant row.  Each query of the         *)
(* evaluation reads its table as it is when the query runs.                *)
(***************************************************************************)
EscopoVazio ==
    [all |-> FALSE, prefeituras |-> {}, secretarias |-> {}, orgaos |-> {},
     setores |-> {}, escolas |-> {}, departamentos |-> {}]

\* scope["..."].add(...) of the ids of c into the scope built so far
escopo_add(scope, c) ==
    [all |-> scope.all,
     prefeituras |-> scope.prefeituras \cup c.prefeituras,
     secretarias |-> scope.secretarias \cup c.secretarias,
     orgaos |-> scope.orgaos \cup c.orgaos,
     setores |-> scope.setores \cup c.setores,
     escolas |-> scope.escolas \cup c.escolas,
     departamentos |-> scope.departamentos \cup c.departamentos]

\* the ids the chains of the sectors S add to a scope
ids_das_cadeias(S) ==
    LET cadeias == {_resolve_chain_from_setor(s) : s \in S}
    IN  [EscopoVazio EXCEPT
            !.setores = S,
            !.orgaos = UNION {chain_ids(c, "orgao") : c \in cadeias},
            !.secretarias = UNION {chain_ids(c, "secretaria") : c \in cadeias},
            !.prefeituras = UNION {chain_ids(c, "prefeitura") : c \in cadeias}]

\* mutation: the municipalities of the AcessoSecretaria rows are read by a
\* query of their own, after the AcessoSetor query
user_scope_consulta_duas_vezes(k, user) ==
    LET us(tipo) == {s.alvo : s \in {r \in user_scopes(user) : r.tipo = tipo}}
        ac(tabela) == {x.alvo : x \in acessos_de(tabela, user)}
        secOrgao == {Orgao_secretaria[o] : o \in ac("AcessoOrgao")}
        secEscola == {Escola_secretaria[e] : e \in ac("AcessoEscola")} \ {None}
    IN  CASE k = 1 -> [EscopoVazio EXCEPT
                          !.prefeituras = us("prefeitura"), !.secretarias = us("secretaria"),
                          !.orgaos = us("orgao"), !.setores = us("setor"),
                          !.escolas = us("escola"), !.departamentos = us("departamento")]
          [] k = 2 -> [EscopoVazio EXCEPT !.prefeituras = ac("AcessoPrefeitura")]
          [] k = 3 -> [EscopoVazio EXCEPT !.secretarias = ac("AcessoSecretaria")]
          [] k = 4 -> [EscopoVazio EXCEPT
                          !.orgaos = ac("AcessoOrgao"), !.secretarias = secOrgao,
                          !.prefeituras = {Secretaria_prefeitura[s] : s \in secOrgao}]
          [] k = 5 -> ids_das_cadeias(ac("AcessoSetor"))
          [] k = 6 -> [EscopoVazio EXCEPT
                          !.escolas = ac("AcessoEscola"), !.secretarias = secEscola,
                          !.prefeituras = {Secretaria_prefeitura[s] : s \in secEscola}
                                          \cup {Secretaria_prefeitura[s] : s \in ac("AcessoSecretaria")}]
          [] OTHER -> ids_das_cadeias(IF user.funcionario # None
                                      THEN {Funcionario_setor[user.funcionario]} ELSE {})

\* what query k of user_scope adds to the scope, for a user that is
\* authenticated and no admin: 1 user.scopes, 2 AcessoPrefeitura,
\* 3 AcessoSecretaria, 4 AcessoOrgao, 5 AcessoSetor, 6 AcessoEscola; 7 is the
\* chain of the user's own employee, which reads no grant table
user_scope_consulta(k, user) ==
    LET us(tipo) == {s.alvo : s \in {r \in user_scopes(user) : r.tipo = tipo}}
        ac(tabela) == {x.alvo : x \in acessos_de(tabela, user)}
        secOrgao == {Orgao_secretaria[o] : o \in ac("AcessoOrgao")}
        secEscola == {Escola_secretaria[e] : e \in ac("AcessoEscola")} \ {None}
    IN  CASE k = 1 -> [EscopoVazio EXCEPT
                          !.prefeituras = us("prefeitura"), !.secretarias = us("secretaria"),
                          !.orgaos = us("orgao"), !.setores = us("setor"),
                          !.escolas = us("escola"), !.departamentos = us("departamento")]
          [] k = 2 -> [EscopoVazio EXCEPT !.prefeituras = ac("AcessoPrefeitura")]
          [] k = 3 -> [EscopoVazio EXCEPT
                          !.secretarias = ac("AcessoSecretaria"),
                          !.prefeituras = {Secretaria_prefeitura[s] : s \in ac("AcessoSecretaria")}]
          [] k = 4 -> [EscopoVazio EXCEPT
                          !.orgaos = ac("AcessoOrgao"), !.secretarias = secOrgao,
                          !.prefeituras = {Secretaria_prefeitura[s] : s \in secOrgao}]
          [] k = 5 -> ids_das_cadeias(ac("AcessoSetor"))
          [] k = 6 -> [EscopoVazio EXCEPT
                          !.escolas = ac("AcessoEscola"), !.secretarias = secEscola,
                          !.prefeituras = {Secretaria_prefeitura[s] : s \in secEscola}]
          [] OTHER -> ids_das_cadeias(IF user.funcionario # None
                                      THEN {Funcionario_setor[user.funcionario]} ELSE {})

\* query k of _has_leitura_em_setor for a user that is no admin: 1
\* user.scopes on the sector, 2 user.scopes on its department or municipality,
\* then in _has_leitura_em_secretaria 3 user.scopes again and 4 AcessoSecretaria
_has_leitura_em_setor_consulta(k, user, setor) ==
    LET sec == _secretaria_do_setor(setor)
        nos_escopos == \E s \in user_scopes(user) :
                          \/ (s.tipo = "secretaria" /\ s.alvo = sec)
                          \/ (s.tipo = "prefeitura" /\ s.alvo = Secretaria_prefeitura[sec])
    IN  CASE k = 1 -> \E s \in user_scopes(user) : s.tipo = "setor" /\ s.alvo = setor
          [] k = 2 -> sec # None /\ nos_escopos
          [] k = 3 -> sec # None /\ nos_escopos
          [] OTHER -> sec # None /\ \E x \in acessos_de("AcessoSecretaria", user) : x.alvo = sec

\* the number of queries of each evaluation
NumConsultas == [tipo \in {"user_scope", "_has_leitura_em_setor"} |->
                    IF tipo = "user_scope" THEN 7 ELSE 4]

\* the evaluation as one atomic read of the current tables
avaliacao_atomica(tipo, user, setor) ==
    IF tipo = "user_scope" THEN user_scope(user) ELSE _has_leitura_em_setor(user, setor)

\* a request starts an evaluation; antes and antes_retorno keep the tables at
\* that moment and what the evaluation gives on them
avaliacao_comeca(tipo, user, setor) ==
    /\ avaliacao.pc = "parado"
    /\ avaliacao' = [pc |-> "consulta", k |-> 1, tipo |-> tipo, user |-> user, setor |-> setor,
                     scope |-> EscopoVazio, retorno |-> FALSE,
                     antes |-> <<scopes, acessos>>,
                     antes_retorno |-> avaliacao_atomica(tipo, user, setor)]
    /\ UNCHANGED <<scopes, acessos, permissoes_funcao, funcionarios, folhas, pedido, chamada>>

\* the next query runs on the tables as they are now; a query of
\* _has_leitura_em_setor that finds a row returns True at once
avaliacao_consulta ==
    /\ avaliacao.pc = "consulta"
    /\ LET a == avaliacao
           ultima == a.k = NumConsultas[a.tipo]
       IN  IF a.tipo = "user_scope"
           THEN avaliacao' = [a EXCEPT !.scope = escopo_add(@, user_scope_consulta(a.k, a.user)),
                                       !.k = IF ultima THEN @ ELSE @ + 1,
                                       !.pc = IF ultima THEN "fim" ELSE "consulta"]
           ELSE LET achou == _has_leitura_em_setor_consulta(a.k, a.user, a.setor)
                IN  avaliacao' = [a EXCEPT !.retorno = achou,
                                           !.k = IF ultima \/ achou THEN @ ELSE @ + 1,
                                           !.pc = IF ultima \/ achou THEN "fim" ELSE "consulta"]
    /\ UNCHANGED <<scopes, acessos, permissoes_funcao, funcionarios, folhas, pedido, chamada>>

\* the request of the evaluation is over
avaliacao_termina ==
    /\ avaliacao.pc = "fim"
    /\ avaliacao' = SemAvaliacao
    /\ UNCHANGED <<scopes, acessos, permissoes_funcao, funcionarios, folhas, pedido, chamada>>

\* the admin writes while no evaluation runs, or once during an evaluation:
\* the tables are still those the evaluation started on
PodeEscrever ==
    \/ avaliacao.pc = "parado"
    \/ avaliacao.pc = "consulta" /\ <<scopes, acessos>> = avaliacao.antes

\* the rows the admin writes around the evaluations
AlvosDeEscopoDaLeitura == {<<"setor", "S1">>, <<"secretaria", "D1">>, <<"prefeitura", "P1">>}

AlvosDeAcessoDaLeitura ==
    {<<"AcessoSecretaria", "D1">>, <<"AcessoSetor", "S2">>, <<"AcessoPrefeitura", "P1">>}

\* the evaluating users: no flags, without employee and linked to F3
UsuariosDaLeitura == {u \in NaoAdminsAut : u.funcionario \in {None, "F3"}}

NextLeitura ==
    \/ PodeEscrever /\ \E alvo \in AlvosDeEscopoDaLeitura : UserScopeAdmin_add("u1", LEITURA, {alvo})
    \/ PodeEscrever /\ \E scope \in scopes : UserScopeAdmin_delete(scope)
    \/ PodeEscrever /\ \E t \in AlvosDeAcessoDaLeitura : AcessoAdmin_add(t[1], "u1", t[2], LEITURA)
    \/ PodeEscrever /\ \E x \in acessos : AcessoAdmin_delete(x)
    \/ \E user \in UsuariosDaLeitura : avaliacao_comeca("user_scope", user, None)
    \/ \E user \in UsuariosDaLeitura, setor \in {"S1", "S2"} :
          avaliacao_comeca("_has_leitura_em_setor", user, setor)
    \/ avaliacao_consulta
    \/ avaliacao_termina

SpecLeitura == Init /\ [][NextLeitura]_vars

\* what the finished evaluation returns
RetornoDaAvaliacao ==
    IF avaliacao.tipo = "user_scope" THEN avaliacao.scope ELSE avaliacao.retorno

\* C21: a finished evaluation of user_scope (the scope every filter_*_by_scope
\* applies) or of _has_leitura_em_setor (user_can_feature with a READ feature
\* on a sector), whose queries ran one by one with at most one creation or
\* deletion of a grant row by the admin between them, returns what the same
\* evaluation gives on the tables as they were when it started or on the
\* tables as they are after the write.
C21_AntesOuDepois ==
    avaliacao.pc = "fim" =>
        \/ RetornoDaAvaliacao = avaliacao.antes_retorno
        \/ RetornoDaAvaliacao = avaliacao_atomica(avaliacao.tipo, avaliacao.user, avaliacao.setor)

\* a scope evaluation has finished with a write made between its queries, and
\* the scope on the tables before differs from the scope on the tables after
C21_Witness ==
    /\ avaliacao.pc = "fim"
    /\ avaliacao.tipo = "user_scope"
    /\ <<scopes, acessos>> # avaliacao.antes
    /\ avaliacao.antes_retorno # user_scope(avaliacao.user)
    /\ avaliacao.scope = user_scope(avaliacao.user)
    /\ acessos # {} /\ scopes # {}

====
